---- MODULE Spec2Model ----
(***************************************************************************)
(* Real-time streaming transcription server (examples/server):             *)
(* RealtimeStreamContext (realtime-stream.cpp/.h) driven by the uWebSockets *)
(* handlers of startWebSocketServer.  uWS runs every handler on one event  *)
(* loop, so each handler invocation is one atomic action.  The class also  *)
(* carries buffer_mutex_ for callers on several threads: SpecLock runs two *)
(* threads against one session, one step per lock, unlock and engine call. *)
(* All sessions call whisper_full on one whisper_context: SpecLoop takes a  *)
(* pass apart at the call and at the return of whisper_full.               *)
(*                                                                         *)
(* Strings are sequences of one-character strings; the empty std::string   *)
(* is << >>.  A sample is a record [id, val]: id is its position in the     *)
(* connection's feed stream (1, 2, 3, ...), so order, loss and duplication *)
(* of samples are visible, val is its value.  A float is the rational      *)
(* [num, den], or [bits] when only its bit pattern is known; an int16 is   *)
(* an integer.  Time is counted in milliseconds of the steady clock.       *)
(***************************************************************************)
EXTENDS Integers, Sequences, FiniteSets, TLC

\* ------------------------------------------------------------------ bounds
\* realtime_stream_params as set by .open, scaled down (3000, 10000 and 200 ms).
step_ms == 2
length_ms == 2
keep_ms == 1
\* WHISPER_SAMPLE_RATE scaled down (16000): one sample per millisecond.
WHISPER_SAMPLE_RATE == 1000
\* The steady clock runs from 0 to MaxTime.
MaxTime == 4
\* At most MaxFed samples are fed on one connection.
MaxFed == 5
\* The texts of SpecDelta's segments are at most MaxText characters long.
MaxText == 3
\* A client of SpecFrame puts at most MaxFrameSamples samples in a frame.
MaxFrameSamples == 5
\* The texts of SpecClean's segments are at most MaxClean characters long.
MaxClean == 3
\* The connections of this specification: uWS hands each connection its own
\* ws object, which is never used again once its .close has run.
Sockets == {"ws1"}

\* ----------------------------------------------------------------- helpers
Min(a, b) == IF a < b THEN a ELSE b
Max(a, b) == IF a > b THEN a ELSE b

\* std::string::substr(pos) and substr(0, n)
SubstrFrom(s, pos) == SubSeq(s, pos + 1, Len(s))
SubstrTo(s, n) == SubSeq(s, 1, Min(n, Len(s)))

RECURSIVE Concat(_)
Concat(ss) == IF ss = << >> THEN << >> ELSE Head(ss) \o Concat(Tail(ss))

\* static_cast<float>(v) / 32768.0f of an int16 v: exact in float32.
INT16_SCALE == 32768

\* Mutant of Int16ToFloat: the divisor is the largest int16, not 2^15.
Int16ToFloat_By32767(v) == [num |-> v, den |-> 32767]

Int16ToFloat(v) == [num |-> v, den |-> INT16_SCALE]

\* The PCM signal a client streams: the int16 value of its k-th sample.
Signal(k) == <<-32768, 32767, 0, -1, 1>>[((k - 1) % 5) + 1]

\* The number of samples in a binary frame of nbytes bytes.
SampleCount(nbytes) ==
    IF nbytes % 4 = 0 THEN nbytes \div 4
    ELSE IF nbytes % 2 = 0 THEN nbytes \div 2
    ELSE 0

\* What the handler's reinterpret_cast shows in a frame of nbytes bytes that
\* carries samples k+1, k+2, ... of the signal: float32 values when nbytes is
\* a multiple of 4, int16 values when it is another multiple of 2.
Samples(k, nbytes) ==
    [i \in 1..SampleCount(nbytes) |->
        [id |-> k + i,
         val |-> IF nbytes % 4 = 0 THEN [num |-> Signal(k + i), den |-> 32768]
                 ELSE Signal(k + i)]]

\* ------------------------------------------------------- derived constants
n_samples_step_ == (step_ms * WHISPER_SAMPLE_RATE) \div 1000
n_samples_len_ == (length_ms * WHISPER_SAMPLE_RATE) \div 1000
n_samples_keep_ == (keep_ms * WHISPER_SAMPLE_RATE) \div 1000

\* The parameters .open constructs every session with.
OpenParams ==
    [step_ms |-> step_ms, length_ms |-> length_ms, keep_ms |-> keep_ms,
     no_context |-> TRUE, no_timestamps |-> FALSE, tinydiarize |-> FALSE,
     language |-> "en", translate |-> FALSE]

\* ------------------------------------------------------------- the engine
\* What whisper_full leaves in the shared context: a return code and, with
\* single_segment = true, at most one segment.
WS == " "
Segments ==
    { [text |-> <<WS, "a">>, t0 |-> 0, t1 |-> 100, tokens |-> <<1>>, turn |-> FALSE],
      [text |-> <<WS, "a", WS, "b">>, t0 |-> 0, t1 |-> 200, tokens |-> <<1, 2>>, turn |-> FALSE],
      [text |-> <<WS, "[", "x", "]">>, t0 |-> 0, t1 |-> 100, tokens |-> <<3>>, turn |-> FALSE] }

EngineResults ==
    { [rc |-> 1, segments |-> << >>] } \cup
    { [rc |-> 0, segments |-> << >>] } \cup
    { [rc |-> 0, segments |-> <<seg>>] : seg \in Segments }

\* The engine's answers to one handler invocation: one of EngineResults when
\* the handler reaches whisper_full, else nothing to choose.
EngineCalls(reached) ==
    IF reached THEN EngineResults ELSE { [rc |-> 0, segments |-> << >>] }

\* to_timestamp(t, false): "MM:SS.mmm" of t in units of 10 ms (t < 1000 here).
to_timestamp(t) ==
    LET d == <<"0", "1", "2", "3", "4", "5", "6", "7", "8", "9">>
        sec == t \div 100
        cs == t % 100
    IN <<"0", "0", ":", "0", d[sec + 1], ".", d[(cs \div 10) + 1], d[(cs % 10) + 1], "0">>

\* ----------------------------------------------------------- Session Core
\* The owner of a std::mutex nobody has locked.
NoThread == ""

\* Mutant of RealtimeStreamContext: last_process_time_ is left at the epoch
\* of the steady clock.
RealtimeStreamContext_EpochClock(params, t) ==
    [params_ |-> params,
     audio_buffer_ |-> << >>,
     pcmf32_old_ |-> << >>,
     prompt_tokens_ |-> << >>,
     n_iter_ |-> 0,
     last_process_time_ |-> 0,
     last_transcription_ |-> << >>,
     buffer_mutex_ |-> NoThread]

\* RealtimeStreamContext::RealtimeStreamContext
RealtimeStreamContext(params, t) ==
    [params_ |-> params,
     audio_buffer_ |-> << >>,
     pcmf32_old_ |-> << >>,
     prompt_tokens_ |-> << >>,
     n_iter_ |-> 0,
     last_process_time_ |-> t,
     last_transcription_ |-> << >>,
     buffer_mutex_ |-> NoThread]

\* Mutant of PopFrontWhileOver: pop_back in place of pop_front.
PopBackWhileOver(buf, max_buffer_size) == SubstrTo(buf, max_buffer_size)

\* while (audio_buffer_.size() > max_buffer_size) audio_buffer_.pop_front();
RECURSIVE PopFrontWhileOver(_, _)
PopFrontWhileOver(buf, max_buffer_size) ==
    IF Len(buf) > max_buffer_size
    THEN PopFrontWhileOver(Tail(buf), max_buffer_size)
    ELSE buf

\* addPCMAudio(const float*, size_t)
addPCMAudio(s, samples) ==
    [s EXCEPT !.audio_buffer_ = PopFrontWhileOver(@ \o samples, n_samples_len_ * 2)]

\* addPCMAudio(const int16_t*, size_t): convert, then the float overload.
addPCMAudioInt16(s, samples) ==
    LET float_samples == [i \in 1..Len(samples) |->
                             [samples[i] EXCEPT !.val = Int16ToFloat(@)]]
    IN addPCMAudio(s, float_samples)

\* Mutant of shouldProcess: the elapsed-time test is missing.
shouldProcess_NoTimeGate(s, t) == Len(s.audio_buffer_) >= n_samples_step_

\* shouldProcess at steady-clock time t
shouldProcess(s, t) ==
    IF Len(s.audio_buffer_) < n_samples_step_
    THEN FALSE
    ELSE (t - s.last_process_time_) >= s.params_.step_ms

\* Mutant of n_samples_take: the whole of pcmf32_old_ is taken as overlap.
n_samples_take_WholeTail(s, n_samples_new) == Len(s.pcmf32_old_)

\* Mutant of n_samples_take: the overlap is bounded by n_samples_keep_ +
\* n_samples_len_, the new samples not subtracted.
n_samples_take_NoSubtract(s, n_samples_new) ==
    Min(Len(s.pcmf32_old_), Max(0, n_samples_keep_ + n_samples_len_))

\* The overlap taken from pcmf32_old_ for n_samples_new new samples.
n_samples_take(s, n_samples_new) ==
    Min(Len(s.pcmf32_old_), Max(0, n_samples_keep_ + n_samples_len_ - n_samples_new))

\* audio_to_process for n_samples_new new samples.
audio_to_process(s, n_samples_new) ==
    LET take == n_samples_take(s, n_samples_new)
        old == s.pcmf32_old_
    IN [i \in 1..take |-> old[Len(old) - take + i]]
       \o SubSeq(s.audio_buffer_, 1, n_samples_new)

\* Mutant of AssembleStep: the new samples are taken from the back of the
\* buffer, the newest first.
AssembleStep_NewestFirst(s, t) ==
    LET n_samples_new == Min(Len(s.audio_buffer_), n_samples_step_)
        take == n_samples_take(s, n_samples_new)
        old == s.pcmf32_old_
        rest == Len(s.audio_buffer_) - n_samples_new
        window == [i \in 1..take |-> old[Len(old) - take + i]]
                  \o SubstrFrom(s.audio_buffer_, rest)
    IN [ctx |-> [s EXCEPT !.pcmf32_old_ = window,
                          !.audio_buffer_ = SubstrTo(@, rest),
                          !.last_process_time_ = t],
        window |-> window,
        n_new |-> n_samples_new]

\* Mutant of AssembleStep: last_process_time_ is not updated.
AssembleStep_StaleClock(s, t) ==
    LET n_samples_new == Min(Len(s.audio_buffer_), n_samples_step_)
        window == audio_to_process(s, n_samples_new)
    IN [ctx |-> [s EXCEPT !.pcmf32_old_ = window,
                          !.audio_buffer_ = SubstrFrom(@, n_samples_new)],
        window |-> window,
        n_new |-> n_samples_new]

\* Mutant of AssembleStep: the whole buffer is erased, not the first
\* n_samples_new samples.
AssembleStep_EraseAll(s, t) ==
    LET n_samples_new == Min(Len(s.audio_buffer_), n_samples_step_)
        window == audio_to_process(s, n_samples_new)
    IN [ctx |-> [s EXCEPT !.pcmf32_old_ = window,
                          !.audio_buffer_ = << >>,
                          !.last_process_time_ = t],
        window |-> window,
        n_new |-> n_samples_new]

\* processIfReady lines 58-82: the critical section that assembles the window.
AssembleStep(s, t) ==
    LET n_samples_new == Min(Len(s.audio_buffer_), n_samples_step_)
        window == audio_to_process(s, n_samples_new)
    IN [ctx |-> [s EXCEPT !.pcmf32_old_ = window,
                          !.audio_buffer_ = SubstrFrom(@, n_samples_new),
                          !.last_process_time_ = t],
        window |-> window,
        n_new |-> n_samples_new]

\* Mutant of AssembleFlush: the overlap is not bounded below by 0 and above
\* by the tail, it is the whole tail.
AssembleFlush_WholeTail(s, t) ==
    LET n_samples_new == Len(s.audio_buffer_)
        window == s.pcmf32_old_ \o s.audio_buffer_
    IN [ctx |-> [s EXCEPT !.audio_buffer_ = << >>,
                          !.pcmf32_old_ = << >>,
                          !.last_process_time_ = t],
        window |-> window,
        n_new |-> n_samples_new]

\* Mutant of AssembleFlush: the window takes the first n_samples_step_ samples
\* of the buffer only, and the whole buffer is cleared.
AssembleFlush_StepOnly(s, t) ==
    LET n_samples_new == Min(Len(s.audio_buffer_), n_samples_step_)
        window == audio_to_process(s, n_samples_new)
    IN [ctx |-> [s EXCEPT !.audio_buffer_ = << >>,
                          !.pcmf32_old_ = << >>,
                          !.last_process_time_ = t],
        window |-> window,
        n_new |-> n_samples_new]

\* flush lines 216-234: the critical section that assembles the window.
AssembleFlush(s, t) ==
    LET n_samples_new == Len(s.audio_buffer_)
        window == audio_to_process(s, n_samples_new)
    IN [ctx |-> [s EXCEPT !.audio_buffer_ = << >>,
                          !.pcmf32_old_ = << >>,
                          !.last_process_time_ = t],
        window |-> window,
        n_new |-> n_samples_new]

\* runInference line 126: "[" + to_timestamp(t0) + " --> " + to_timestamp(t1) + "]  "
TimestampPrefix(seg) ==
    <<"[">> \o to_timestamp(seg.t0) \o <<WS, "-", "-", ">", WS>>
    \o to_timestamp(seg.t1) \o <<"]", WS, WS>>

\* runInference lines 120-136: one segment of the formatted transcript.
FormatSegment(params, seg) ==
    (IF ~params.no_timestamps
     THEN <<"[">> \o to_timestamp(seg.t0) \o <<WS, "-", "-", ">", WS>>
          \o to_timestamp(seg.t1) \o <<"]", WS, WS>>
     ELSE << >>)
    \o seg.text
    \o (IF params.tinydiarize /\ seg.turn
        THEN <<WS, "[", "S", "P", "E", "A", "K", "E", "R", "_", "T", "U", "R", "N", "]">>
        ELSE << >>)

\* Mutant of runInference: with context enabled prompt_tokens_ is rewritten
\* after every successful call, so a call without segments empties it.
runInference_ClearOnNoSegments(s, audio_data, eng) ==
    IF audio_data = << >> THEN [ctx |-> s, result |-> << >>, called |-> FALSE]
    ELSE IF eng.rc # 0 THEN [ctx |-> s, result |-> << >>, called |-> TRUE]
    ELSE
        LET n_segments == Len(eng.segments)
            result == Concat([i \in 1..n_segments |->
                                 FormatSegment(s.params_, eng.segments[i])])
            tokens == Concat([i \in 1..n_segments |-> eng.segments[i].tokens])
        IN [ctx |-> [s EXCEPT !.n_iter_ = @ + 1,
                              !.prompt_tokens_ =
                                  IF ~s.params_.no_context THEN tokens ELSE @],
            result |-> result,
            called |-> TRUE]

\* runInference: eng is what whisper_full returns and leaves in the context.
runInference(s, audio_data, eng) ==
    IF audio_data = << >> THEN [ctx |-> s, result |-> << >>, called |-> FALSE]
    ELSE IF eng.rc # 0 THEN [ctx |-> s, result |-> << >>, called |-> TRUE]
    ELSE
        LET n_segments == Len(eng.segments)
            result == Concat([i \in 1..n_segments |->
                                 FormatSegment(s.params_, eng.segments[i])])
            tokens == Concat([i \in 1..n_segments |-> eng.segments[i].tokens])
        IN [ctx |-> [s EXCEPT !.n_iter_ = @ + 1,
                              !.prompt_tokens_ =
                                  IF ~s.params_.no_context /\ n_segments > 0
                                  THEN tokens ELSE @],
            result |-> result,
            called |-> TRUE]

\* extractNewText: the removeTimestamps lambda.
RECURSIVE removeTimestampsFrom(_, _, _)
removeTimestampsFrom(text, i, in_timestamp) ==
    IF i > Len(text) THEN << >>
    ELSE LET c == text[i] IN
         IF c = "[" THEN removeTimestampsFrom(text, i + 1, TRUE)
         ELSE IF c = "]" /\ in_timestamp THEN removeTimestampsFrom(text, i + 1, FALSE)
         ELSE IF ~in_timestamp THEN <<c>> \o removeTimestampsFrom(text, i + 1, in_timestamp)
         ELSE removeTimestampsFrom(text, i + 1, in_timestamp)

removeTimestamps(text) == removeTimestampsFrom(text, 1, FALSE)

IsSpace(c) == c \in {" ", "\t", "\n", "\r"}

\* s.find_first_not_of(" \t\n\r"), as a 0-based index; Len(s) stands for npos.
RECURSIVE find_first_not_of(_, _)
find_first_not_of(s, i) ==
    IF i >= Len(s) THEN Len(s)
    ELSE IF ~IsSpace(s[i + 1]) THEN i
    ELSE find_first_not_of(s, i + 1)

\* s.find_last_not_of(" \t\n\r") + 1, npos + 1 being 0.
RECURSIVE find_last_not_of_plus1(_, _)
find_last_not_of_plus1(s, n) ==
    IF n = 0 THEN 0
    ELSE IF ~IsSpace(s[n]) THEN n
    ELSE find_last_not_of_plus1(s, n - 1)

\* extractNewText: the trim lambda.
trim(s) ==
    LET s1 == SubstrFrom(s, find_first_not_of(s, 0))
    IN SubstrTo(s1, find_last_not_of_plus1(s1, Len(s1)))

\* Mutant of extractNewText: the suffix is returned as it is, not trimmed.
extractNewText_NoTrim(s, full_text) ==
    IF full_text = << >> THEN [ctx |-> s, text |-> << >>]
    ELSE
        LET current_clean == trim(removeTimestamps(full_text))
            last_clean == trim(removeTimestamps(s.last_transcription_))
            new_text ==
                IF Len(current_clean) > Len(last_clean)
                   /\ SubstrTo(current_clean, Len(last_clean)) = last_clean
                THEN SubstrFrom(current_clean, Len(last_clean))
                ELSE IF current_clean # last_clean THEN current_clean
                ELSE << >>
        IN [ctx |-> [s EXCEPT !.last_transcription_ = full_text],
            text |-> new_text]

\* Mutant of extractNewText: the transcript is not stored for the next call.
extractNewText_NoStore(s, full_text) ==
    IF full_text = << >> THEN [ctx |-> s, text |-> << >>]
    ELSE
        LET current_clean == trim(removeTimestamps(full_text))
            last_clean == trim(removeTimestamps(s.last_transcription_))
            new_text ==
                IF Len(current_clean) > Len(last_clean)
                   /\ SubstrTo(current_clean, Len(last_clean)) = last_clean
                THEN trim(SubstrFrom(current_clean, Len(last_clean)))
                ELSE IF current_clean # last_clean THEN current_clean
                ELSE << >>
        IN [ctx |-> s, text |-> new_text]

\* Mutant of extractNewText: a transcript whose clean form is a prefix of the
\* clean form stored (the engine took words back) yields no text.
extractNewText_DropShorter(s, full_text) ==
    IF full_text = << >> THEN [ctx |-> s, text |-> << >>]
    ELSE
        LET current_clean == trim(removeTimestamps(full_text))
            last_clean == trim(removeTimestamps(s.last_transcription_))
            new_text ==
                IF Len(current_clean) > Len(last_clean)
                   /\ SubstrTo(current_clean, Len(last_clean)) = last_clean
                THEN trim(SubstrFrom(current_clean, Len(last_clean)))
                ELSE IF SubstrTo(last_clean, Len(current_clean)) # current_clean
                THEN current_clean
                ELSE << >>
        IN [ctx |-> [s EXCEPT !.last_transcription_ = full_text],
            text |-> new_text]

\* extractNewText
extractNewText(s, full_text) ==
    IF full_text = << >> THEN [ctx |-> s, text |-> << >>]
    ELSE
        LET current_clean == trim(removeTimestamps(full_text))
            last_clean == trim(removeTimestamps(s.last_transcription_))
            new_text ==
                IF Len(current_clean) > Len(last_clean)
                   /\ SubstrTo(current_clean, Len(last_clean)) = last_clean
                THEN trim(SubstrFrom(current_clean, Len(last_clean)))
                ELSE IF current_clean # last_clean THEN current_clean
                ELSE << >>
        IN [ctx |-> [s EXCEPT !.last_transcription_ = full_text],
            text |-> new_text]

\* A call that ran no inference pass.
NoPass(s) ==
    [ctx |-> s, text |-> << >>, passes |-> << >>]

\* The rest of a pass after window assembly: runInference, then extractNewText.
InferAndExtract(a, eng) ==
    LET r == runInference(a.ctx, a.window, eng)
        x == extractNewText(r.ctx, r.result)
    IN [ctx |-> x.ctx,
        text |-> x.text,
        passes |-> << [window |-> a.window, n_new |-> a.n_new, called |-> r.called,
                       rc |-> eng.rc, full |-> r.result,
                       n_segments |-> Len(eng.segments),
                       tokens |-> Concat([i \in 1..Len(eng.segments) |->
                                             eng.segments[i].tokens])] >>]

\* Mutant of processIfReady: when the engine fails the session is put back as
\* it was, so that the samples are submitted again.
processIfReady_RequeueOnFail(s, t, eng) ==
    IF ~shouldProcess(s, t) THEN NoPass(s)
    ELSE LET r == InferAndExtract(AssembleStep(s, t), eng)
         IN IF eng.rc # 0 THEN [r EXCEPT !.ctx = s] ELSE r

\* processIfReady
processIfReady(s, t, eng) ==
    IF ~shouldProcess(s, t) THEN NoPass(s)
    ELSE InferAndExtract(AssembleStep(s, t), eng)

\* Mutant of flush: the early return on an empty buffer is missing.
flush_NoEmptyCheck(s, t, eng) == InferAndExtract(AssembleFlush(s, t), eng)

\* flush
flush(s, t, eng) ==
    IF s.audio_buffer_ = << >> THEN NoPass(s)
    ELSE InferAndExtract(AssembleFlush(s, t), eng)

\* Mutant of reset: last_transcription_ is not cleared.
reset_KeepTranscription(s, t) ==
    [s EXCEPT !.audio_buffer_ = << >>,
              !.pcmf32_old_ = << >>,
              !.prompt_tokens_ = << >>,
              !.n_iter_ = 0,
              !.last_process_time_ = t]

\* Mutant of reset: n_iter_ is incremented where it should be zeroed.
reset_CountsIteration(s, t) ==
    [s EXCEPT !.audio_buffer_ = << >>,
              !.pcmf32_old_ = << >>,
              !.prompt_tokens_ = << >>,
              !.last_transcription_ = << >>,
              !.n_iter_ = @ + 1,
              !.last_process_time_ = t]

\* Mutant of reset: the tail is kept.
reset_KeepTail(s, t) ==
    [s EXCEPT !.audio_buffer_ = << >>,
              !.prompt_tokens_ = << >>,
              !.last_transcription_ = << >>,
              !.n_iter_ = 0,
              !.last_process_time_ = t]

\* reset
reset(s, t) ==
    [s EXCEPT !.audio_buffer_ = << >>,
              !.pcmf32_old_ = << >>,
              !.prompt_tokens_ = << >>,
              !.last_transcription_ = << >>,
              !.n_iter_ = 0,
              !.last_process_time_ = t]

\* ------------------------------------------------------------------ state
VARIABLES
    now,           \* std::chrono::steady_clock::now(), in ms
    next_user_id,  \* std::atomic<int> next_user_id
    sockets,       \* open connection -> PerSocketData [user_id, stream_ctx]
    closed,        \* the connections whose .close has run
    n_fed,         \* open connection -> number of samples fed on it so far
    hist,          \* open connection -> what happened on it earlier (see NoHistory)
    ev,            \* the handler invocation that led to this state
    threads,       \* thread inside a session call -> where it is (see Idle); no
                   \* thread is, between the handlers of the event loop
    ctx_           \* the whisper_context all sessions share (see NoContext)

vars == <<now, next_user_id, sockets, closed, n_fed, hist, ev, threads, ctx_>>

\* The shared whisper_context before any call: result is what the latest
\* whisper_full left in it (return code and segments), calls the number of
\* whisper_full calls in progress.  The handlers that take the engine's
\* answer in one step leave it alone.
NoContext == [result |-> [rc |-> 0, segments |-> << >>], calls |-> 0]

\* The history of a fresh connection.  drain_at is the time of the latest
\* inference pass processIfReady ran, kept while less than step_ms have passed
\* since (-1: none, or longer ago).  mark is the number of samples fed when
\* reset was last called, kept until a pass has produced a non-empty
\* transcript since (-1: no reset, or such a pass has run).  after_reset says
\* that the latest frame handled on the connection was a reset frame.
\* prev_full is the transcript runInference returned in the latest pass since
\* the session was constructed or reset (<< >>: no pass, or it returned "").
\* last_new is the highest id among the samples that passes have submitted
\* as new so far (0: none).
NoMark == 0 - 1
NoHistory ==
    [drain_at |-> NoMark, mark |-> NoMark, after_reset |-> FALSE,
     prev_full |-> << >>, last_new |-> 0]

\* The samples a pass submitted as new: the last n_new of its window.
NewSamples(pass) ==
    SubSeq(pass.window, Len(pass.window) - pass.n_new + 1, Len(pass.window))

\* The history of a connection after a handler that ran passes (at most one)
\* and called reset or not.
Remember(h, n, passes, did_reset) ==
    [h EXCEPT
       !.mark = IF did_reset THEN n
                ELSE IF \E i \in 1..Len(passes) : passes[i].full # << >> THEN NoMark
                ELSE @,
       !.after_reset = did_reset,
       !.prev_full = IF passes # << >> THEN passes[Len(passes)].full
                     ELSE IF did_reset THEN << >>
                     ELSE @,
       !.last_new = IF passes # << >> /\ passes[Len(passes)].n_new > 0
                    THEN LET new == NewSamples(passes[Len(passes)])
                         IN CHOOSE m \in {new[i].id : i \in 1..Len(new)} :
                                \A i \in 1..Len(new) : new[i].id <= m
                    ELSE @]

\* Whether some pass of a handler produced a non-empty transcript.
ProducedText(passes) == \E i \in 1..Len(passes) : passes[i].full # << >>

\* ev of a step that is no frame handler (clock tick, close): op names the
\* handler, arg its input (for a binary frame: its byte length, the number of
\* samples in it, whether processIfReady was called, and how many samples
\* addPCMAudio popped), fed the buffer between addPCMAudio and processIfReady,
\* passes the windows handed to runInference, text the string the session
\* call returned, sent the frames passed to ws->send.  again says that a reset
\* frame follows a reset frame on the same connection, no other frame
\* between them; mark is the
\* connection's history mark when a pass of this handler produced the first
\* non-empty transcript since a reset; same says that the pass of this
\* handler got from runInference the non-empty transcript the pass before it
\* got.  For a close, arg is the number of samples the buffer held.
NoEvent ==
    [op |-> "none", ws |-> "", arg |-> << >>, again |-> FALSE, fed |-> << >>,
     mark |-> NoMark, same |-> FALSE, passes |-> << >>, text |-> << >>,
     sent |-> << >>]

\* Whether the pass of a handler got the transcript of the pass before it.
SameAsBefore(h, passes) ==
    /\ passes # << >>
    /\ passes[1].full # << >>
    /\ passes[1].full = h.prev_full

\* --------------------------------------------------- inbound text frames
\* A text frame, by what json::parse and the handler see in it.
TextMessages ==
    { [parses |-> FALSE, has_type |-> FALSE, type_is_string |-> FALSE, type |-> "",
       has_language |-> FALSE, language |-> "", has_translate |-> FALSE,
       translate |-> FALSE],
      [parses |-> TRUE, has_type |-> FALSE, type_is_string |-> FALSE, type |-> "",
       has_language |-> FALSE, language |-> "", has_translate |-> FALSE,
       translate |-> FALSE],
      [parses |-> TRUE, has_type |-> TRUE, type_is_string |-> FALSE, type |-> "7",
       has_language |-> FALSE, language |-> "", has_translate |-> FALSE,
       translate |-> FALSE],
      [parses |-> TRUE, has_type |-> TRUE, type_is_string |-> TRUE, type |-> "config",
       has_language |-> TRUE, language |-> "de", has_translate |-> FALSE,
       translate |-> FALSE],
      [parses |-> TRUE, has_type |-> TRUE, type_is_string |-> TRUE, type |-> "flush",
       has_language |-> FALSE, language |-> "", has_translate |-> FALSE,
       translate |-> FALSE],
      [parses |-> TRUE, has_type |-> TRUE, type_is_string |-> TRUE, type |-> "reset",
       has_language |-> FALSE, language |-> "", has_translate |-> FALSE,
       translate |-> FALSE],
      [parses |-> TRUE, has_type |-> TRUE, type_is_string |-> TRUE, type |-> "bogus",
       has_language |-> FALSE, language |-> "", has_translate |-> FALSE,
       translate |-> FALSE] }

\* ------------------------------------------------------- outbound frames
ConnectedFrame(user_id) ==
    [type |-> "connected", user_id |-> user_id, sample_rate |-> WHISPER_SAMPLE_RATE]
ConfigUpdatedFrame == [type |-> "config_updated", status |-> "ok"]
FlushCompleteFrame(text, user_id) ==
    [type |-> "flush_complete", text |-> text, user_id |-> user_id]
ResetFrame == [type |-> "reset", status |-> "ok"]
ErrorFrame(message) == [type |-> "error", message |-> message]
TranscriptionFrame(text, user_id) ==
    [type |-> "transcription", text |-> text, user_id |-> user_id]

\* ---------------------------------------------------------------- actions
Init ==
    /\ now = 0
    /\ next_user_id = 1
    /\ sockets = << >>
    /\ closed = {}
    /\ n_fed = << >>
    /\ hist = << >>
    /\ ev = NoEvent
    /\ threads = << >>
    /\ ctx_ = NoContext

\* The steady clock advances by one millisecond, up to limit.
TickTo(limit) ==
    /\ now < limit
    /\ now' = now + 1
    /\ hist' = [w \in DOMAIN hist |->
                    [hist[w] EXCEPT !.drain_at =
                        IF @ # NoMark /\ now' - @ < step_ms THEN @ ELSE NoMark]]
    /\ ev' = NoEvent
    /\ UNCHANGED <<next_user_id, sockets, closed, n_fed, threads, ctx_>>

Tick == TickTo(MaxTime)

\* Mutant of Open: next_user_id is read but not incremented.
Open_NoIncrement(ws) ==
    /\ ws \notin DOMAIN sockets
    /\ ws \notin closed
    /\ LET user_id == next_user_id
           data == [user_id |-> user_id,
                    stream_ctx |-> RealtimeStreamContext(OpenParams, now)]
       IN /\ sockets' = [w \in DOMAIN sockets \cup {ws} |->
                            IF w = ws THEN data ELSE sockets[w]]
          /\ n_fed' = [w \in DOMAIN sockets \cup {ws} |->
                            IF w = ws THEN 0 ELSE n_fed[w]]
          /\ hist' = [w \in DOMAIN sockets \cup {ws} |->
                            IF w = ws THEN NoHistory ELSE hist[w]]
          /\ ev' = [NoEvent EXCEPT !.op = "open", !.ws = ws,
                                   !.sent = <<ConnectedFrame(user_id)>>]
    /\ UNCHANGED <<now, closed, next_user_id, threads, ctx_>>

\* .open, the session constructed with one of the parameter records in params.
OpenOf(ws, params) ==
    /\ ws \notin DOMAIN sockets
    /\ ws \notin closed
    /\ \E p \in params :
       LET user_id == next_user_id
           data == [user_id |-> user_id,
                    stream_ctx |-> RealtimeStreamContext(p, now)]
       IN /\ sockets' = [w \in DOMAIN sockets \cup {ws} |->
                            IF w = ws THEN data ELSE sockets[w]]
          /\ n_fed' = [w \in DOMAIN sockets \cup {ws} |->
                            IF w = ws THEN 0 ELSE n_fed[w]]
          /\ hist' = [w \in DOMAIN sockets \cup {ws} |->
                            IF w = ws THEN NoHistory ELSE hist[w]]
          /\ ev' = [NoEvent EXCEPT !.op = "open", !.ws = ws,
                                   !.sent = <<ConnectedFrame(user_id)>>]
    /\ next_user_id' = IF next_user_id = 2147483647 THEN -2147483647 - 1
                       ELSE next_user_id + 1
    /\ UNCHANGED <<now, closed, threads, ctx_>>

\* .open
Open(ws) == OpenOf(ws, {OpenParams})

\* Mutant of TextHandler: a config frame sets the language and the translate
\* flag of the session's parameters from the fields it carries.
TextHandler_ApplyConfig(data, msg, t, eng) ==
    LET s == data.stream_ctx IN
    IF ~msg.parses
    THEN [ctx |-> s, passes |-> << >>, text |-> << >>,
          sent |-> <<ErrorFrame("Invalid JSON: parse_error")>>, did_reset |-> FALSE]
    ELSE IF ~msg.has_type
    THEN [ctx |-> s, passes |-> << >>, text |-> << >>, sent |-> << >>, did_reset |-> FALSE]
    ELSE IF ~msg.type_is_string
    THEN [ctx |-> s, passes |-> << >>, text |-> << >>,
          sent |-> <<ErrorFrame("Invalid JSON: type_error")>>, did_reset |-> FALSE]
    ELSE IF msg.type = "config"
    THEN [ctx |-> [s EXCEPT !.params_.language =
                                IF msg.has_language THEN msg.language ELSE @,
                            !.params_.translate =
                                IF msg.has_translate THEN msg.translate ELSE @],
          passes |-> << >>, text |-> << >>, sent |-> <<ConfigUpdatedFrame>>,
          did_reset |-> FALSE]
    ELSE IF msg.type = "flush"
    THEN LET r == flush(s, t, eng)
         IN [ctx |-> r.ctx, passes |-> r.passes, text |-> r.text,
             sent |-> <<FlushCompleteFrame(r.text, data.user_id)>>, did_reset |-> FALSE]
    ELSE IF msg.type = "reset"
    THEN [ctx |-> reset(s, t), passes |-> << >>, text |-> << >>, sent |-> <<ResetFrame>>,
          did_reset |-> TRUE]
    ELSE [ctx |-> s, passes |-> << >>, text |-> << >>, sent |-> << >>, did_reset |-> FALSE]

\* Mutant of TextHandler: a config frame calls processIfReady before it is
\* acknowledged.
TextHandler_DrainOnConfig(data, msg, t, eng) ==
    LET s == data.stream_ctx IN
    IF ~msg.parses
    THEN [ctx |-> s, passes |-> << >>, text |-> << >>,
          sent |-> <<ErrorFrame("Invalid JSON: parse_error")>>, did_reset |-> FALSE]
    ELSE IF ~msg.has_type
    THEN [ctx |-> s, passes |-> << >>, text |-> << >>, sent |-> << >>, did_reset |-> FALSE]
    ELSE IF ~msg.type_is_string
    THEN [ctx |-> s, passes |-> << >>, text |-> << >>,
          sent |-> <<ErrorFrame("Invalid JSON: type_error")>>, did_reset |-> FALSE]
    ELSE IF msg.type = "config"
    THEN LET r == processIfReady(s, t, eng)
         IN [ctx |-> r.ctx, passes |-> r.passes, text |-> r.text,
             sent |-> <<ConfigUpdatedFrame>>, did_reset |-> FALSE]
    ELSE IF msg.type = "flush"
    THEN LET r == flush(s, t, eng)
         IN [ctx |-> r.ctx, passes |-> r.passes, text |-> r.text,
             sent |-> <<FlushCompleteFrame(r.text, data.user_id)>>, did_reset |-> FALSE]
    ELSE IF msg.type = "reset"
    THEN [ctx |-> reset(s, t), passes |-> << >>, text |-> << >>, sent |-> <<ResetFrame>>,
          did_reset |-> TRUE]
    ELSE [ctx |-> s, passes |-> << >>, text |-> << >>, sent |-> << >>, did_reset |-> FALSE]

\* .message, opCode TEXT
TextHandler(data, msg, t, eng) ==
    LET s == data.stream_ctx IN
    IF ~msg.parses
    THEN [ctx |-> s, passes |-> << >>, text |-> << >>,
          sent |-> <<ErrorFrame("Invalid JSON: parse_error")>>, did_reset |-> FALSE]
    ELSE IF ~msg.has_type
    THEN [ctx |-> s, passes |-> << >>, text |-> << >>, sent |-> << >>, did_reset |-> FALSE]
    ELSE IF ~msg.type_is_string
    THEN [ctx |-> s, passes |-> << >>, text |-> << >>,
          sent |-> <<ErrorFrame("Invalid JSON: type_error")>>, did_reset |-> FALSE]
    ELSE IF msg.type = "config"
    THEN [ctx |-> s, passes |-> << >>, text |-> << >>, sent |-> <<ConfigUpdatedFrame>>, did_reset |-> FALSE]
    ELSE IF msg.type = "flush"
    THEN LET r == flush(s, t, eng)
         IN [ctx |-> r.ctx, passes |-> r.passes, text |-> r.text,
             sent |-> <<FlushCompleteFrame(r.text, data.user_id)>>, did_reset |-> FALSE]
    ELSE IF msg.type = "reset"
    THEN [ctx |-> reset(s, t), passes |-> << >>, text |-> << >>, sent |-> <<ResetFrame>>,
          did_reset |-> TRUE]
    ELSE [ctx |-> s, passes |-> << >>, text |-> << >>, sent |-> << >>, did_reset |-> FALSE]

\* Mutant of OnTextOf: there is one session for all connections, so what a
\* control frame does to the session shows on every open connection.
OnTextOf_SharedSession(ws, msgs) ==
    /\ ws \in DOMAIN sockets
    /\ \E msg \in msgs :
       \E eng \in EngineCalls(msg.parses /\ msg.has_type /\ msg.type_is_string
                             /\ msg.type = "flush"
                             /\ sockets[ws].stream_ctx.audio_buffer_ # << >>) :
       \E h \in {TextHandler(sockets[ws], msg, now, eng)} :
             /\ sockets' = [w \in DOMAIN sockets |->
                               [sockets[w] EXCEPT !.stream_ctx = h.ctx]]
             /\ hist' = [hist EXCEPT ![ws] =
                             Remember(@, n_fed[ws], h.passes, h.did_reset)]
             /\ ev' = [op |-> "text", ws |-> ws, arg |-> msg,
                       again |-> h.did_reset /\ hist[ws].after_reset,
                       fed |-> << >>,
                       mark |-> IF ProducedText(h.passes) THEN hist[ws].mark ELSE NoMark,
                       same |-> SameAsBefore(hist[ws], h.passes),
                       passes |-> h.passes, text |-> h.text, sent |-> h.sent]
    /\ UNCHANGED <<now, next_user_id, closed, n_fed, threads, ctx_>>

\* .message with a text frame out of msgs.
OnTextOf(ws, msgs) ==
    /\ ws \in DOMAIN sockets
    /\ \E msg \in msgs :
       \E eng \in EngineCalls(msg.parses /\ msg.has_type /\ msg.type_is_string
                             /\ msg.type = "flush"
                             /\ sockets[ws].stream_ctx.audio_buffer_ # << >>) :
       \E h \in {TextHandler(sockets[ws], msg, now, eng)} :
             /\ sockets' = [sockets EXCEPT ![ws].stream_ctx = h.ctx]
             /\ hist' = [hist EXCEPT ![ws] =
                             Remember(@, n_fed[ws], h.passes, h.did_reset)]
             /\ ev' = [op |-> "text", ws |-> ws, arg |-> msg,
                       again |-> h.did_reset /\ hist[ws].after_reset,
                       fed |-> << >>,
                       mark |-> IF ProducedText(h.passes) THEN hist[ws].mark ELSE NoMark,
                       same |-> SameAsBefore(hist[ws], h.passes),
                       passes |-> h.passes, text |-> h.text, sent |-> h.sent]
    /\ UNCHANGED <<now, next_user_id, closed, n_fed, threads, ctx_>>

OnText(ws) == OnTextOf(ws, TextMessages)

\* The byte lengths of the binary frames: multiples of 4, other multiples
\* of 2, and an odd length.
FrameBytes == {0, 2, 3, 4, 6, 8}

\* Whether the binary handler reaches whisper_full for this frame.
WouldProcess(s, nbytes, samples, t) ==
    /\ nbytes % 2 = 0
    /\ shouldProcess(addPCMAudio(s, samples), t)

\* Mutant of BinaryHandler: the return after the error frame is missing, so
\* processIfReady is called for a frame of odd length too.
BinaryHandler_DrainOnError(data, nbytes, samples, t, eng) ==
    LET s == data.stream_ctx
        fed == IF nbytes % 4 = 0 THEN addPCMAudio(s, samples)
               ELSE IF nbytes % 2 = 0 THEN addPCMAudioInt16(s, samples)
               ELSE s
        r == processIfReady(fed, t, eng)
    IN [ctx |-> r.ctx, fed |-> fed.audio_buffer_, passes |-> r.passes, text |-> r.text,
        drained |-> nbytes % 2 = 0,
        popped |-> Len(s.audio_buffer_) + Len(samples) - Len(fed.audio_buffer_),
        sent |-> (IF nbytes % 2 # 0
                  THEN <<ErrorFrame("Invalid audio data size")>> ELSE << >>)
                 \o (IF r.text # << >>
                     THEN <<TranscriptionFrame(r.text, data.user_id)>>
                     ELSE << >>)]

\* Mutant of BinaryHandler: the transcription frame is sent whenever a pass
\* ran, also with an empty text.
BinaryHandler_SendEmpty(data, nbytes, samples, t, eng) ==
    LET s == data.stream_ctx IN
    IF nbytes % 4 # 0 /\ nbytes % 2 # 0
    THEN [ctx |-> s, fed |-> s.audio_buffer_, passes |-> << >>, text |-> << >>,
          drained |-> FALSE, popped |-> 0,
          sent |-> <<ErrorFrame("Invalid audio data size")>>]
    ELSE
        LET fed == IF nbytes % 4 = 0 THEN addPCMAudio(s, samples)
                   ELSE addPCMAudioInt16(s, samples)
            r == processIfReady(fed, t, eng)
        IN [ctx |-> r.ctx, fed |-> fed.audio_buffer_, passes |-> r.passes, text |-> r.text,
            drained |-> TRUE,
            popped |-> Len(s.audio_buffer_) + Len(samples) - Len(fed.audio_buffer_),
            sent |-> IF r.passes # << >>
                     THEN <<TranscriptionFrame(r.text, data.user_id)>>
                     ELSE << >>]

\* .message, opCode BINARY: a frame of nbytes bytes carrying the next samples.
BinaryHandler(data, nbytes, samples, t, eng) ==
    LET s == data.stream_ctx IN
    IF nbytes % 4 # 0 /\ nbytes % 2 # 0
    THEN [ctx |-> s, fed |-> s.audio_buffer_, passes |-> << >>, text |-> << >>,
          drained |-> FALSE, popped |-> 0,
          sent |-> <<ErrorFrame("Invalid audio data size")>>]
    ELSE
        LET fed == IF nbytes % 4 = 0 THEN addPCMAudio(s, samples)
                   ELSE addPCMAudioInt16(s, samples)
            r == processIfReady(fed, t, eng)
        IN [ctx |-> r.ctx, fed |-> fed.audio_buffer_, passes |-> r.passes, text |-> r.text,
            drained |-> TRUE,
            popped |-> Len(s.audio_buffer_) + Len(samples) - Len(fed.audio_buffer_),
            sent |-> IF r.text # << >>
                     THEN <<TranscriptionFrame(r.text, data.user_id)>>
                     ELSE << >>]

\* .message with a binary frame whose byte length is one of lengths.
OnBinaryOf(ws, lengths) ==
    /\ ws \in DOMAIN sockets
    /\ \E nbytes \in lengths :
       \E eng \in EngineCalls(WouldProcess(sockets[ws].stream_ctx, nbytes,
                                           Samples(n_fed[ws], nbytes), now)) :
       \E count \in {SampleCount(nbytes)} :
       \E h \in {BinaryHandler(sockets[ws], nbytes, Samples(n_fed[ws], nbytes), now, eng)} :
             /\ n_fed[ws] + count <= MaxFed
             /\ sockets' = [sockets EXCEPT ![ws].stream_ctx = h.ctx]
             /\ n_fed' = [n_fed EXCEPT ![ws] = @ + count]
             /\ hist' = [hist EXCEPT ![ws] =
                             [Remember(@, n_fed[ws], h.passes, FALSE) EXCEPT
                                 !.drain_at = IF h.passes # << >> THEN now ELSE @]]
             /\ ev' = [op |-> "binary", ws |-> ws,
                       arg |-> [nbytes |-> nbytes, count |-> count, drained |-> h.drained,
                                popped |-> h.popped],
                       again |-> FALSE,
                       fed |-> h.fed,
                       mark |-> IF ProducedText(h.passes) THEN hist[ws].mark ELSE NoMark,
                       same |-> SameAsBefore(hist[ws], h.passes),
                       passes |-> h.passes, text |-> h.text, sent |-> h.sent]
    /\ UNCHANGED <<now, next_user_id, closed, threads, ctx_>>

OnBinary(ws) == OnBinaryOf(ws, FrameBytes)

\* Mutant of Close: the session is flushed and the text sent before the
\* connection goes.
Close_Flush(ws) ==
    /\ ws \in DOMAIN sockets
    /\ \E eng \in EngineResults :
       \E r \in {flush(sockets[ws].stream_ctx, now, eng)} :
          ev' = [NoEvent EXCEPT !.op = "close", !.ws = ws,
                                !.arg = Len(sockets[ws].stream_ctx.audio_buffer_),
                                !.passes = r.passes, !.text = r.text,
                                !.sent = <<FlushCompleteFrame(r.text, sockets[ws].user_id)>>]
    /\ sockets' = [w \in DOMAIN sockets \ {ws} |-> sockets[w]]
    /\ closed' = closed \cup {ws}
    /\ n_fed' = [w \in DOMAIN n_fed \ {ws} |-> n_fed[w]]
    /\ hist' = [w \in DOMAIN hist \ {ws} |-> hist[w]]
    /\ UNCHANGED <<now, next_user_id, threads, ctx_>>

\* .close
Close(ws) ==
    /\ ws \in DOMAIN sockets
    /\ sockets' = [w \in DOMAIN sockets \ {ws} |-> sockets[w]]
    /\ closed' = closed \cup {ws}
    /\ n_fed' = [w \in DOMAIN n_fed \ {ws} |-> n_fed[w]]
    /\ hist' = [w \in DOMAIN hist \ {ws} |-> hist[w]]
    /\ ev' = [NoEvent EXCEPT !.op = "close", !.ws = ws,
                             !.arg = Len(sockets[ws].stream_ctx.audio_buffer_)]
    /\ UNCHANGED <<now, next_user_id, threads, ctx_>>

Next ==
    \/ Tick
    \/ \E ws \in Sockets : Open(ws)
    \/ \E ws \in Sockets : OnText(ws)
    \/ \E ws \in Sockets : OnBinary(ws)
    \/ \E ws \in Sockets : Close(ws)

Spec == Init /\ [][Next]_vars

\* ------------------------------------------------------------ properties
N_STEP == n_samples_step_
N_LEN == n_samples_len_
N_KEEP == n_samples_keep_
N_MAX == 2 * N_LEN

\* The session of connection ws.
Ctx(ws) == sockets[ws].stream_ctx

\* ev is a binary frame that was fed and followed by processIfReady.
IsFeed(e) == e.op = "binary" /\ e.arg.drained
\* ev is a flush, resp. reset, control frame.
IsControl(e, type) ==
    e.op = "text" /\ e.arg.parses /\ e.arg.has_type /\ e.arg.type_is_string
    /\ e.arg.type = type

\* The last n elements of seq (all of it when it is shorter).
Newest(seq, n) == SubSeq(seq, Len(seq) - Min(n, Len(seq)) + 1, Len(seq))

\* The session fields other than the buffer agree.
SameButBuffer(s1, s2) ==
    /\ s1.pcmf32_old_ = s2.pcmf32_old_
    /\ s1.prompt_tokens_ = s2.prompt_tokens_
    /\ s1.last_transcription_ = s2.last_transcription_
    /\ s1.last_process_time_ = s2.last_process_time_
    /\ s1.n_iter_ = s2.n_iter_
    /\ s1.params_ = s2.params_

\* C1: after every call the buffer holds at most N_MAX samples, and the
\* buffer a push leaves is the newest N_MAX samples of the old buffer followed
\* by the pushed samples (all of them when they are fewer).
C1_BufferCapped ==
    [][ /\ \A ws \in DOMAIN sockets' : Len(sockets'[ws].stream_ctx.audio_buffer_) <= N_MAX
        /\ IsFeed(ev') =>
              LET ws == ev'.ws
                  pushed == [i \in 1..ev'.arg.count |->
                                [id |-> n_fed[ws] + i,
                                 val |-> [num |-> Signal(n_fed[ws] + i), den |-> 32768]]]
                  all == Ctx(ws).audio_buffer_ \o pushed
              IN /\ Len(ev'.fed) <= N_MAX
                 /\ ev'.fed = Newest(all, N_MAX)
                 /\ ev'.arg.popped = Len(all) - Len(ev'.fed) ]_vars

\* C1 witness: a push popped samples from the front of a full buffer.
C1_Witness == IsFeed(ev) /\ ev.arg.popped > 0 /\ Len(ev.fed) = N_MAX

\* The readiness predicate at the moment processIfReady is called in step
\* (vars, vars'): enough samples after the push, and step_ms elapsed.
ReadyAtCall ==
    /\ Len(ev'.fed) >= N_STEP
    /\ now - Ctx(ev'.ws).last_process_time_ >= step_ms

\* C2: processIfReady runs an inference pass only when the buffer holds at
\* least N_STEP samples and step_ms have elapsed since last_process_time_;
\* otherwise it returns "" and changes no field of the session, and no
\* transcription frame is sent.
C2_DrainGated ==
    [][ IsFeed(ev') =>
          /\ ev'.passes # << >> => ReadyAtCall
          /\ ~ReadyAtCall =>
                /\ ev'.passes = << >>
                /\ ev'.text = << >>
                /\ ev'.sent = << >>
                /\ sockets'[ev'.ws].stream_ctx.audio_buffer_ = ev'.fed
                /\ SameButBuffer(sockets'[ev'.ws].stream_ctx, Ctx(ev'.ws)) ]_vars

\* C2 witness: processIfReady was called with at least N_STEP samples in the
\* buffer and ran no pass (the time gate was closed).
C2_Witness ==
    IsFeed(ev) /\ Len(ev.fed) >= N_STEP /\ ev.passes = << >> /\ ev.arg.count > 0

\* C3: a processIfReady call that passes the readiness check removes exactly
\* min(len(buffer), N_STEP) samples from the front of the buffer, leaves the
\* rest in order, sets the tail to the submitted window and last_process_time_
\* to the time of the call.
C3_DrainConsumes ==
    [][ IsFeed(ev') /\ ReadyAtCall =>
          LET s == sockets'[ev'.ws].stream_ctx
              n_new == Min(Len(ev'.fed), N_STEP)
          IN /\ Len(ev'.passes) = 1
             /\ ev'.passes[1].n_new = n_new
             /\ ev'.fed = SubSeq(ev'.fed, 1, n_new) \o s.audio_buffer_
             /\ Len(s.audio_buffer_) = Len(ev'.fed) - n_new
             /\ s.pcmf32_old_ = ev'.passes[1].window
             /\ s.last_process_time_ = now ]_vars

\* C3 witness: a pass ran and left samples in the buffer.
C3_Witness ==
    IsFeed(ev) /\ ev.passes # << >> /\ Ctx(ev.ws).audio_buffer_ # << >>
    /\ Len(ev.passes[1].window) > ev.passes[1].n_new

\* C4: a processIfReady call less than step_ms after a processIfReady call
\* that ran an inference pass runs none and returns "", whatever the buffer
\* holds.
C4_TimeGate ==
    [][ /\ IsFeed(ev')
        /\ hist[ev'.ws].drain_at # NoMark
        /\ now - hist[ev'.ws].drain_at < step_ms
        => /\ ev'.passes = << >>
           /\ ev'.text = << >>
           /\ ev'.sent = << >> ]_vars

\* C4 witness: a second call within step_ms of a pass found at least N_STEP
\* samples in the buffer and ran nothing.
C4_Witness ==
    /\ IsFeed(ev)
    /\ hist[ev.ws].drain_at # NoMark
    /\ now - hist[ev.ws].drain_at < step_ms
    /\ Len(ev.fed) >= N_STEP
    /\ ev.passes = << >>

\* C5: a binary frame after whose samples the readiness predicate holds runs
\* exactly one inference pass; a non-empty delta is sent as exactly one
\* transcription frame carrying the connection's user_id (the one its
\* connected frame carried), an empty delta sends nothing.
C5_OneTranscription ==
    [][ /\ ev'.op = "open" =>
              /\ sockets'[ev'.ws].user_id = next_user_id
              /\ ev'.sent = << [type |-> "connected", user_id |-> next_user_id,
                                sample_rate |-> WHISPER_SAMPLE_RATE] >>
        /\ \A ws \in DOMAIN sockets \cap DOMAIN sockets' :
              sockets'[ws].user_id = sockets[ws].user_id
        /\ IsFeed(ev') /\ ReadyAtCall =>
              /\ Len(ev'.passes) = 1
              /\ ev'.passes[1].called
              /\ ev'.text # << >> =>
                    ev'.sent = << [type |-> "transcription", text |-> ev'.text,
                                   user_id |-> sockets[ev'.ws].user_id] >>
              /\ ev'.text = << >> => ev'.sent = << >> ]_vars

\* C5 witness: a binary frame was answered with a transcription frame.
C5_Witness ==
    /\ IsFeed(ev)
    /\ Len(ev.sent) = 1
    /\ ev.sent[1].type = "transcription"
    /\ ev.sent[1].text # << >>

\* C6: flush with a non-empty buffer hands the engine the last n_take samples
\* of the tail followed by the whole buffer, n_take = min(len(tail),
\* max(0, N_KEEP + N_LEN - len(buffer))), whether or not the readiness
\* predicate holds, and leaves buffer and tail empty.
C6_FlushWindow ==
    [][ IsControl(ev', "flush") /\ Ctx(ev'.ws).audio_buffer_ # << >> =>
          LET buffer == Ctx(ev'.ws).audio_buffer_
              tail == Ctx(ev'.ws).pcmf32_old_
              n_new == Len(buffer)
              n_take == Min(Len(tail), Max(0, N_KEEP + N_LEN - n_new))
              s == sockets'[ev'.ws].stream_ctx
          IN /\ Len(ev'.passes) = 1
             /\ ev'.passes[1].called
             /\ ev'.passes[1].n_new = n_new
             /\ ev'.passes[1].window = Newest(tail, n_take) \o buffer
             /\ s.audio_buffer_ = << >>
             /\ s.pcmf32_old_ = << >> ]_vars

\* C6 witness: a flush submitted fewer than N_STEP new samples behind an
\* overlap taken from the tail.
C6_Witness ==
    /\ IsControl(ev, "flush")
    /\ Len(ev.passes) = 1
    /\ ev.passes[1].n_new < N_STEP
    /\ Len(ev.passes[1].window) > ev.passes[1].n_new

\* C7: flush with an empty buffer returns "", calls the engine not at all and
\* changes no field of the session; the handler sends exactly one
\* flush_complete frame with the empty text and the connection's user_id.
C7_FlushEmpty ==
    [][ IsControl(ev', "flush") /\ Ctx(ev'.ws).audio_buffer_ = << >> =>
          /\ ev'.text = << >>
          /\ ev'.passes = << >>
          /\ sockets'[ev'.ws].stream_ctx = Ctx(ev'.ws)
          /\ ev'.sent = << [type |-> "flush_complete", text |-> << >>,
                            user_id |-> sockets[ev'.ws].user_id] >> ]_vars

\* C7 witness: a flush found the buffer empty and the tail not.
C7_Witness ==
    /\ IsControl(ev, "flush")
    /\ ev.passes = << >>
    /\ Ctx(ev.ws).audio_buffer_ = << >>
    /\ Ctx(ev.ws).pcmf32_old_ # << >>
    /\ Ctx(ev.ws).last_transcription_ # << >>

\* C8: after a reset frame the buffer, the tail, the prompt tokens and the
\* last transcription are empty, n_iter_ is 0 and last_process_time_ is the
\* time of the call; the handler sends exactly one reset frame, status ok.
C8_ResetClears ==
    IsControl(ev, "reset") =>
        /\ Ctx(ev.ws).audio_buffer_ = << >>
        /\ Ctx(ev.ws).pcmf32_old_ = << >>
        /\ Ctx(ev.ws).prompt_tokens_ = << >>
        /\ Ctx(ev.ws).last_transcription_ = << >>
        /\ Ctx(ev.ws).n_iter_ = 0
        /\ Ctx(ev.ws).last_process_time_ = now
        /\ ev.sent = << [type |-> "reset", status |-> "ok"] >>

\* C8 witness: a reset at a later time than the session's construction, after
\* samples were fed.
C8_Witness ==
    IsControl(ev, "reset") /\ n_fed[ev.ws] >= N_STEP /\ now >= step_ms

\* C9 as claimed: a reset frame that follows a reset frame on the same
\* connection, no other frame between them, changes no field of the session.
C9_ResetIdempotentAllFields ==
    [][ IsControl(ev', "reset") /\ hist[ev'.ws].after_reset =>
          sockets'[ev'.ws].stream_ctx = Ctx(ev'.ws) ]_vars

\* C9 amended: such a reset frame changes no field of the session other than
\* last_process_time_, which becomes the time of the second call.
C9_ResetIdempotent ==
    [][ IsControl(ev', "reset") /\ hist[ev'.ws].after_reset =>
          /\ sockets'[ev'.ws].stream_ctx.last_process_time_ = now
          /\ sockets'[ev'.ws].stream_ctx.audio_buffer_ = Ctx(ev'.ws).audio_buffer_
          /\ SameButBuffer([sockets'[ev'.ws].stream_ctx EXCEPT
                               !.last_process_time_ = Ctx(ev'.ws).last_process_time_],
                           Ctx(ev'.ws)) ]_vars

\* C9 witness: reset was called twice in a row, the second time later than
\* the session's construction.
C9_Witness ==
    IsControl(ev, "reset") /\ ev.again /\ n_fed[ev.ws] > 0 /\ now > 0

\* The clean form of a transcript: bracketed spans stripped, then trimmed.
CleanForm(text) == trim(removeTimestamps(text))

\* C10: the first pass after a reset that produces a non-empty transcript
\* returns the whole clean form of that transcript, and every sample of its
\* window was fed after the reset.
C10_FreshAfterReset ==
    [][ /\ ev'.passes # << >>
        /\ ev'.passes[1].full # << >>
        /\ hist[ev'.ws].mark # NoMark
        => /\ ev'.text = CleanForm(ev'.passes[1].full)
           /\ \A i \in 1..Len(ev'.passes[1].window) :
                 ev'.passes[1].window[i].id > hist[ev'.ws].mark ]_vars

\* C10 witness: after samples were fed and a reset, a pass produced a
\* non-empty delta.
C10_Witness ==
    /\ ev.passes # << >>
    /\ ev.mark > 0
    /\ ev.passes[1].full # << >>
    /\ ev.text # << >>

\* C11: a pass (drain or flush) in which runInference returns the transcript
\* it returned in the pass before it, no reset between the two, returns the
\* empty delta; so does every pass whose transcript is empty.
C11_DeltaPurity ==
    [][ ev'.passes # << >> =>
          LET full == ev'.passes[1].full
          IN /\ full # << >> /\ full = hist[ev'.ws].prev_full => ev'.text = << >>
             /\ full = << >> => ev'.text = << >> ]_vars

\* C11 witness: a pass got the non-empty transcript of the pass before it,
\* whose clean form is not empty.
C11_Witness ==
    /\ ev.passes # << >>
    /\ ev.same
    /\ CleanForm(ev.passes[1].full) # << >>
    /\ ev.text = << >>

\* C13: a pass whose whisper_full call fails returns the empty delta and is
\* the only pass of its handler; a drain sends no frame and has consumed its
\* n_new samples, tail and last_process_time_ set as by any pass; a flush has
\* emptied buffer and tail and answers with an empty flush_complete; the
\* transcript state is untouched and the connection stays open.
C13_EngineFailure ==
    [][ ev'.passes # << >> /\ ev'.passes[1].called /\ ev'.passes[1].rc # 0 =>
          LET ws == ev'.ws
              pass == ev'.passes[1]
              s == sockets'[ws].stream_ctx
          IN /\ Len(ev'.passes) = 1
             /\ pass.full = << >>
             /\ ev'.text = << >>
             /\ ws \in DOMAIN sockets' /\ ws \notin closed'
             /\ s.last_process_time_ = now
             /\ s.last_transcription_ = Ctx(ws).last_transcription_
             /\ s.prompt_tokens_ = Ctx(ws).prompt_tokens_
             /\ s.n_iter_ = Ctx(ws).n_iter_
             /\ IsFeed(ev') =>
                   /\ ev'.sent = << >>
                   /\ pass.n_new = Min(Len(ev'.fed), N_STEP)
                   /\ s.audio_buffer_ = SubSeq(ev'.fed, pass.n_new + 1, Len(ev'.fed))
                   /\ s.pcmf32_old_ = pass.window
             /\ IsControl(ev', "flush") =>
                   /\ ev'.sent = << [type |-> "flush_complete", text |-> << >>,
                                     user_id |-> sockets[ws].user_id] >>
                   /\ pass.n_new = Len(Ctx(ws).audio_buffer_)
                   /\ s.audio_buffer_ = << >>
                   /\ s.pcmf32_old_ = << >> ]_vars

\* C13 witness: the engine failed in a drain that left samples in the buffer
\* of a session that had emitted text before.
C13_Witness ==
    /\ IsFeed(ev)
    /\ ev.passes # << >>
    /\ ev.passes[1].rc # 0
    /\ Ctx(ev.ws).audio_buffer_ # << >>
    /\ Ctx(ev.ws).last_transcription_ # << >>

\* C14: a text frame that does not parse, has no type, or has a type other
\* than config, flush and reset is answered with exactly one error frame
\* that carries a message, the session is unchanged and the connection open.
C14_MalformedControl ==
    [][ /\ ev'.op = "text"
        /\ \/ ~ev'.arg.parses
           \/ ~ev'.arg.has_type
           \/ ev'.arg.type \notin {"config", "flush", "reset"}
        => /\ Len(ev'.sent) = 1
           /\ ev'.sent[1].type = "error"
           /\ ev'.sent[1].message # ""
           /\ ev'.ws \in DOMAIN sockets'
           /\ sockets'[ev'.ws] = sockets[ev'.ws] ]_vars

\* C17: a binary frame of odd length is answered with exactly one error
\* frame; no sample is appended, processIfReady is not called, no field of
\* the session changes and the connection stays open.
C17_OddFrameRejected ==
    [][ ev'.op = "binary" /\ ev'.arg.nbytes % 2 = 1 =>
          /\ Len(ev'.sent) = 1
          /\ ev'.sent[1].type = "error"
          /\ ~ev'.arg.drained
          /\ ev'.passes = << >>
          /\ ev'.arg.count = 0
          /\ n_fed' = n_fed
          /\ ev'.ws \in DOMAIN sockets' /\ ev'.ws \notin closed'
          /\ sockets'[ev'.ws] = sockets[ev'.ws] ]_vars

\* C17 witness: a frame of odd length reached a session that was ready, with
\* a transcript stored, and left it so.
C17_Witness ==
    /\ ev.op = "binary"
    /\ ev.arg.nbytes % 2 = 1
    /\ Len(Ctx(ev.ws).audio_buffer_) >= N_STEP
    /\ now - Ctx(ev.ws).last_process_time_ >= step_ms
    /\ Ctx(ev.ws).last_transcription_ # << >>

\* The frame a handler sends answers the inbound frame (or the open) that
\* the handler was invoked with.
Answers(e) ==
    LET type == e.sent[1].type
    IN IF e.op = "open" THEN type = "connected"
       ELSE IF e.op = "binary" THEN type \in {"transcription", "error"}
       ELSE IF e.op = "text" THEN
            IF IsControl(e, "config") THEN type = "config_updated"
            ELSE IF IsControl(e, "flush") THEN type = "flush_complete"
            ELSE IF IsControl(e, "reset") THEN type = "reset"
            ELSE type = "error"
       ELSE FALSE

\* C19: a frame is sent only by the handler of the inbound frame it answers,
\* at most one per inbound frame, before the next inbound frame is handled;
\* the samples a pass submits as new are in feed order and were all fed after
\* every sample an earlier pass of the session submitted as new.
C19_FeedOrder ==
    [][ /\ ev'.sent # << >> => Len(ev'.sent) = 1 /\ Answers(ev')
        /\ ev'.passes # << >> =>
              LET new == NewSamples(ev'.passes[1])
              IN /\ Len(ev'.passes) = 1
                 /\ \A i \in 1..Len(new) : new[i].id > hist[ev'.ws].last_new
                 /\ \A i, j \in 1..Len(new) : i < j => new[i].id < new[j].id ]_vars

\* C19 witness: a pass behind an earlier pass of the session (its window
\* starts with samples of that pass) submitted new samples while older ones
\* stayed in the buffer, and its text was sent.
C19_Witness ==
    /\ ev.passes # << >>
    /\ ev.passes[1].n_new > 0
    /\ Len(ev.passes[1].window) > ev.passes[1].n_new
    /\ Ctx(ev.ws).audio_buffer_ # << >>
    /\ ev.sent # << >>

\* C20: .close runs no inference pass and sends no frame, whatever the
\* buffer holds; the session is gone with the connection, and no handler
\* runs for a connection that has closed.
C20_NoFlushOnClose ==
    [][ /\ ev'.op = "close" =>
              /\ ev'.passes = << >>
              /\ ev'.text = << >>
              /\ ev'.sent = << >>
              /\ ev'.ws \in closed'
              /\ ev'.ws \notin DOMAIN sockets'
        /\ \A ws \in closed : ws \notin DOMAIN sockets' /\ ev'.ws # ws ]_vars

\* C20 witness: a connection closed, step_ms or more into the run, while its
\* buffer held at least N_STEP samples.
C20_Witness ==
    /\ ev.op = "close"
    /\ ev.arg >= N_STEP
    /\ now >= step_ms

\* ------------------------------------------- extractNewText on its own
\* The texts the engine may return for a segment, and the transcripts
\* runInference formats from them.
Alphabet == {" ", "a", "[", "]"}
Texts == UNION { [1..n -> Alphabet] : n \in 0..MaxText }
Transcript(text) ==
    FormatSegment(OpenParams,
                  [text |-> text, t0 |-> 0, t1 |-> 100, tokens |-> << >>, turn |-> FALSE])

\* A connection opened at time 0 whose session has stored a transcript, or
\* none yet.
InitDelta ==
    /\ now = 0
    /\ next_user_id = 2
    /\ closed = {}
    /\ n_fed = [ws \in {"ws1"} |-> 0]
    /\ hist = [ws \in {"ws1"} |-> NoHistory]
    /\ ev = NoEvent
    /\ threads = << >>
    /\ ctx_ = NoContext
    /\ \E last \in {<< >>} \cup {Transcript(text) : text \in Texts} :
          sockets = [ws \in {"ws1"} |->
                        [user_id |-> 1,
                         stream_ctx |->
                             [RealtimeStreamContext(OpenParams, 0) EXCEPT
                                 !.last_transcription_ = last,
                                 !.n_iter_ = IF last = << >> THEN 0 ELSE 1]]]

\* One call of extractNewText with the transcript of a pass.
Extract(ws) ==
    /\ ws \in DOMAIN sockets
    /\ ev.op = "none"
    /\ \E text \in Texts :
       \E x \in {extractNewText(sockets[ws].stream_ctx, Transcript(text))} :
          /\ sockets' = [sockets EXCEPT ![ws].stream_ctx = x.ctx]
          /\ ev' = [NoEvent EXCEPT !.op = "extract", !.ws = ws,
                                   !.arg = [last |-> sockets[ws].stream_ctx.last_transcription_,
                                            full |-> Transcript(text)],
                                   !.text = x.text]
    /\ UNCHANGED <<now, next_user_id, closed, n_fed, hist, threads, ctx_>>

NextDelta == \E ws \in Sockets : Extract(ws)

SpecDelta == InitDelta /\ [][NextDelta]_vars

\* a is a strict prefix of b.
StrictPrefix(a, b) == Len(a) < Len(b) /\ SubSeq(b, 1, Len(a)) = a

\* C12 as claimed: when clean(current) has clean(last) as a strict prefix,
\* clean(last), a space and the delta make up clean(current).
C12_MonotoneExtension ==
    [][ ev'.op = "extract" =>
          LET last == CleanForm(ev'.arg.last)
              current == CleanForm(ev'.arg.full)
          IN StrictPrefix(last, current) =>
                last \o <<" ">> \o ev'.text = current ]_vars

\* C12 amended: in that case the delta is the rest of clean(current) behind
\* clean(last) without its leading whitespace: it is not empty, starts with
\* no whitespace, and clean(last), a run of whitespace (possibly none) and the
\* delta make up clean(current).
C12_SuffixTrimmed ==
    [][ ev'.op = "extract" =>
          LET last == CleanForm(ev'.arg.last)
              current == CleanForm(ev'.arg.full)
              rest == SubSeq(current, Len(last) + 1, Len(current))
              k == Len(rest) - Len(ev'.text)
          IN StrictPrefix(last, current) =>
                /\ ev'.text # << >>
                /\ ~IsSpace(ev'.text[1])
                /\ k >= 0
                /\ \A i \in 1..k : IsSpace(rest[i])
                /\ ev'.text = SubSeq(rest, k + 1, Len(rest)) ]_vars

\* C12 witness: a non-empty clean(last) was extended by a space and a word,
\* and the delta is the word.
C12_Witness ==
    /\ ev.op = "extract"
    /\ CleanForm(ev.arg.last) # << >>
    /\ StrictPrefix(CleanForm(ev.arg.last), CleanForm(ev.arg.full))
    /\ CleanForm(ev.arg.last) \o <<" ">> \o ev.text = CleanForm(ev.arg.full)

\* ------------------------------------------------ binary frames in bytes
\* A frame as its client built it: enc is the encoding the client used, vals
\* the sample values it encoded (int16 values, resp. floats), stray the number
\* of bytes behind the last sample.
Int16Values == {-32768, 0, 32767}
FloatValues == {[num |-> -32768, den |-> 32768], [num |-> 65536, den |-> 32768]}
ClientFrames ==
    { [enc |-> "i16", vals |-> vs, stray |-> b] :
          vs \in UNION { [1..n -> Int16Values] : n \in 0..MaxFrameSamples }, b \in {0, 1} }
    \cup
    { [enc |-> "f32", vals |-> vs, stray |-> b] :
          vs \in UNION { [1..n -> FloatValues] : n \in 0..(MaxFrameSamples \div 2) },
          b \in {0, 1} }

\* message.size()
FrameLength(frame) ==
    (IF frame.enc = "f32" THEN 4 ELSE 2) * Len(frame.vals) + frame.stray

\* What the handler's reinterpret_cast shows in the frame, the samples
\* numbered from k + 1: the client's floats, or the floats whose bit patterns
\* are pairs of the client's int16 values, when the length is a multiple of
\* 4; the client's int16 values when it is another multiple of 2.
Reinterpret(frame, k) ==
    LET nbytes == FrameLength(frame)
    IN IF nbytes % 4 = 0
       THEN [i \in 1..(nbytes \div 4) |->
                [id |-> k + i,
                 val |-> IF frame.enc = "f32" THEN frame.vals[i]
                         ELSE [bits |-> <<frame.vals[2 * i - 1], frame.vals[2 * i]>>]]]
       ELSE IF nbytes % 2 = 0
       THEN [i \in 1..(nbytes \div 2) |-> [id |-> k + i, val |-> frame.vals[i]]]
       ELSE << >>

\* .message, opCode BINARY, with the first frame of a connection.
OnFrame(ws) ==
    /\ ws \in DOMAIN sockets
    /\ ev.op = "open" /\ ev.ws = ws
    /\ \E frame \in ClientFrames :
       \E nbytes \in {FrameLength(frame)} :
       \E samples \in {Reinterpret(frame, n_fed[ws])} :
       \E eng \in EngineCalls(WouldProcess(sockets[ws].stream_ctx, nbytes, samples, now)) :
       \E h \in {BinaryHandler(sockets[ws], nbytes, samples, now, eng)} :
             /\ sockets' = [sockets EXCEPT ![ws].stream_ctx = h.ctx]
             /\ n_fed' = [n_fed EXCEPT ![ws] = @ + Len(samples)]
             /\ hist' = [hist EXCEPT ![ws] =
                             [Remember(@, n_fed[ws], h.passes, FALSE) EXCEPT
                                 !.drain_at = IF h.passes # << >> THEN now ELSE @]]
             /\ ev' = [op |-> "binary", ws |-> ws,
                       arg |-> [nbytes |-> nbytes, count |-> Len(samples),
                                drained |-> h.drained, popped |-> h.popped,
                                frame |-> frame, seen |-> samples],
                       again |-> FALSE,
                       fed |-> h.fed,
                       mark |-> IF ProducedText(h.passes) THEN hist[ws].mark ELSE NoMark,
                       same |-> SameAsBefore(hist[ws], h.passes),
                       passes |-> h.passes, text |-> h.text, sent |-> h.sent]
    /\ UNCHANGED <<now, next_user_id, closed, threads, ctx_>>

NextFrame ==
    \/ \E ws \in Sockets : Open(ws)
    \/ \E ws \in Sockets : OnFrame(ws)
    \/ \E ws \in Sockets : Close(ws)

SpecFrame == Init /\ [][NextFrame]_vars

\* The value v / 32768 lies in [-1, 1).
InUnitRange(x) == x.den = 32768 /\ -32768 <= x.num /\ x.num < 32768

\* C15: a frame whose length L is a multiple of 4 is fed as the L/4 float32
\* values found in it, unchanged; a frame whose length is another multiple
\* of 2 is fed as the L/2 int16 values found in it, each divided by 32768;
\* that many samples are appended before the buffer is capped.
C15_FrameClassification ==
    [][ ev'.op = "binary" /\ ev'.arg.nbytes % 2 = 0 =>
          LET L == ev'.arg.nbytes
              seen == ev'.arg.seen
              expected ==
                  IF L % 4 = 0 THEN seen
                  ELSE [i \in 1..(L \div 2) |->
                           [id |-> seen[i].id,
                            val |-> [num |-> seen[i].val, den |-> 32768]]]
              all == Ctx(ev'.ws).audio_buffer_ \o expected
          IN /\ Len(seen) = IF L % 4 = 0 THEN L \div 4 ELSE L \div 2
             /\ ev'.arg.drained
             /\ ev'.fed = Newest(all, N_MAX)
             /\ ev'.arg.popped = Len(all) - Len(ev'.fed)
             /\ Len(ev'.fed) + ev'.arg.popped - Len(Ctx(ev'.ws).audio_buffer_) = Len(seen)
             /\ L % 4 # 0 => \A i \in 1..Len(ev'.fed) : InUnitRange(ev'.fed[i].val) ]_vars

\* C15 witness: a frame of int16 samples, the lowest and the highest value
\* among them, was fed and the buffer capped.
C15_Witness ==
    /\ ev.op = "binary"
    /\ ev.arg.nbytes % 4 = 2
    /\ ev.arg.popped > 0
    /\ \E i, j \in 1..Len(ev.fed) :
          /\ ev.fed[i].val = [num |-> -32768, den |-> 32768]
          /\ ev.fed[j].val = [num |-> 32767, den |-> 32768]

\* C16: a frame that carries an even number n > 0 of int16 samples (2n bytes,
\* a multiple of 4 as 6000 is) is answered with no error frame and fed as n
\* samples, the client's values divided by 32768, all in [-1, 1).
C16_Int16AutoDetect ==
    [][ /\ ev'.op = "binary"
        /\ ev'.arg.frame.enc = "i16"
        /\ ev'.arg.frame.stray = 0
        /\ Len(ev'.arg.frame.vals) > 0
        /\ Len(ev'.arg.frame.vals) % 2 = 0
        => LET vals == ev'.arg.frame.vals
               all == Ctx(ev'.ws).audio_buffer_ \o
                         [i \in 1..Len(vals) |->
                             [id |-> n_fed[ev'.ws] + i,
                              val |-> [num |-> vals[i], den |-> 32768]]]
           IN /\ \A i \in 1..Len(ev'.sent) : ev'.sent[i].type # "error"
              /\ ev'.arg.count = Len(vals)
              /\ ev'.fed = Newest(all, N_MAX)
              /\ \A i \in 1..Len(ev'.fed) : InUnitRange(ev'.fed[i].val) ]_vars

\* ------------------------------------------------- several connections
\* Three connections that open, receive control frames and close in any
\* order, at one instant of the clock.
SocketsMulti == {"ws1", "ws2", "ws3"}

NextMulti ==
    \/ \E ws \in SocketsMulti : Open(ws)
    \/ \E ws \in SocketsMulti : OnText(ws)
    \/ \E ws \in SocketsMulti : Close(ws)

SpecMulti == Init /\ [][NextMulti]_vars

\* C18: the k-th connection opened gets user_id k and is sent, as the first
\* frame on it, a connected frame with that id; the id is above that of every
\* connection opened before, no two open connections share an id, and no
\* handler changes an id.
C18_UserIds ==
    [][ /\ ev'.op = "open" =>
              LET k == Cardinality(DOMAIN sockets \cup closed) + 1
              IN /\ sockets'[ev'.ws].user_id = k
                 /\ ev'.sent = << [type |-> "connected", user_id |-> k,
                                   sample_rate |-> WHISPER_SAMPLE_RATE] >>
                 /\ \A w \in DOMAIN sockets : sockets[w].user_id < k
        /\ ev'.op # "open" /\ ev'.sent # << >> => ev'.ws \in DOMAIN sockets
        /\ \A w \in DOMAIN sockets \cap DOMAIN sockets' :
              sockets'[w].user_id = sockets[w].user_id
        /\ \A w1, w2 \in DOMAIN sockets' :
              w1 # w2 => sockets'[w1].user_id # sockets'[w2].user_id ]_vars

\* C18 witness: the third connection was opened after one of the first two
\* had closed, next to the other.
C18_Witness ==
    /\ ev.op = "open"
    /\ sockets[ev.ws].user_id = 3
    /\ closed # {}
    /\ Cardinality(DOMAIN sockets) = 2

\* ------------------------------------------ sessions of other parameters
\* The parameter records a session is constructed with: those of .open, and
\* the same with context enabled (realtime_stream_params::no_context = false).
ParamChoices == { [OpenParams EXCEPT !.no_context = b] : b \in BOOLEAN }

\* The config frames: with or without a language, with or without a
\* translate flag.
ConfigMessages ==
    { [parses |-> TRUE, has_type |-> TRUE, type_is_string |-> TRUE, type |-> "config",
       has_language |-> l, language |-> IF l THEN "de" ELSE "",
       has_translate |-> tr, translate |-> tr] : l \in BOOLEAN, tr \in BOOLEAN }

\* The control frames of this specification, and the byte lengths of its
\* binary frames (float32 samples).
SessionMessages ==
    ConfigMessages \cup
    { m \in TextMessages : m.type_is_string /\ m.type \in {"flush", "reset"} }
SessionFrames == {4, 8}

NextSession ==
    \/ Tick
    \/ \E ws \in Sockets : OpenOf(ws, ParamChoices)
    \/ \E ws \in Sockets : OnTextOf(ws, SessionMessages)
    \/ \E ws \in Sockets : OnBinaryOf(ws, SessionFrames)

SpecSession == Init /\ [][NextSession]_vars

\* C21: a config frame is answered with exactly one config_updated frame,
\* status ok, and changes no field of the session (parameters, buffer, tail,
\* prompt tokens, last transcription, last_process_time_, n_iter_), whatever
\* language or translate field it carries; no pass runs.
C21_ConfigIgnored ==
    [][ IsControl(ev', "config") =>
          /\ ev'.sent = << [type |-> "config_updated", status |-> "ok"] >>
          /\ ev'.passes = << >>
          /\ sockets'[ev'.ws] = sockets[ev'.ws]
          /\ n_fed' = n_fed ]_vars

\* C21 witness: a config frame with a language and a translate flag reached
\* a session with samples in the buffer, a tail, prompt tokens and a stored
\* transcript.
C21_Witness ==
    /\ IsControl(ev, "config")
    /\ ev.arg.has_language /\ ev.arg.has_translate /\ ev.arg.translate
    /\ Ctx(ev.ws).audio_buffer_ # << >>
    /\ Ctx(ev.ws).pcmf32_old_ # << >>
    /\ Ctx(ev.ws).prompt_tokens_ # << >>
    /\ Ctx(ev.ws).last_transcription_ # << >>
    /\ Ctx(ev.ws).n_iter_ > 0

\* ev is a handler that ran a pass whose whisper_full call succeeded.
Succeeded(e) == e.passes # << >> /\ e.passes[1].called /\ e.passes[1].rc = 0

\* C25 as claimed: after a successful pass prompt_tokens_ holds the token ids
\* of that pass's segments in order, and is empty if context is disabled or
\* the pass produced no segment; a fresh or reset session has none, and no
\* other step changes them.
C25_PromptTokensLatestPass ==
    [][ \A ws \in DOMAIN sockets' :
          LET s == sockets'[ws].stream_ctx IN
          IF ev'.ws = ws /\ Succeeded(ev')
          THEN s.prompt_tokens_ =
                   IF s.params_.no_context \/ ev'.passes[1].n_segments = 0 THEN << >>
                   ELSE ev'.passes[1].tokens
          ELSE IF ev'.ws = ws /\ (ev'.op = "open" \/ IsControl(ev', "reset"))
          THEN s.prompt_tokens_ = << >>
          ELSE s.prompt_tokens_ = Ctx(ws).prompt_tokens_ ]_vars

\* C25 amended: with context disabled prompt_tokens_ is always empty; with
\* context enabled a successful pass that produced segments sets it to their
\* token ids in order, a successful pass that produced none leaves it as it
\* was; a fresh or reset session has none, and no other step changes them.
C25_PromptTokensLatestSegments ==
    [][ \A ws \in DOMAIN sockets' :
          LET s == sockets'[ws].stream_ctx IN
          /\ s.params_.no_context => s.prompt_tokens_ = << >>
          /\ IF ev'.ws = ws /\ Succeeded(ev') /\ ~s.params_.no_context
                 /\ ev'.passes[1].n_segments > 0
             THEN s.prompt_tokens_ = ev'.passes[1].tokens
             ELSE IF ev'.ws = ws /\ (ev'.op = "open" \/ IsControl(ev', "reset"))
             THEN s.prompt_tokens_ = << >>
             ELSE s.prompt_tokens_ = Ctx(ws).prompt_tokens_ ]_vars

\* C25 witness: with context enabled, a successful pass without segments
\* followed one with segments, and the tokens of the earlier one are kept
\* (the state reached is that of the later pass).
C25_Witness ==
    /\ Succeeded(ev)
    /\ ev.passes[1].n_segments = 0
    /\ ~Ctx(ev.ws).params_.no_context
    /\ Ctx(ev.ws).prompt_tokens_ # << >>

\* ------------------------------------------------- passes, continued
\* C22: with timestamps enabled, as .open leaves them, the text of a
\* transcription frame starts with the timestamp prefix "[t0 --> t1]  " of
\* the segment the pass produced.
C22_TimestampedText ==
    [][ /\ ev'.op = "binary"
        /\ ev'.sent # << >>
        /\ ev'.sent[1].type = "transcription"
        => \E seg \in Segments :
              /\ ev'.passes[1].full = FormatSegment(Ctx(ev'.ws).params_, seg)
              /\ SubstrTo(ev'.sent[1].text, Len(TimestampPrefix(seg)))
                     = TimestampPrefix(seg) ]_vars

\* C23: the window processIfReady submits is the last n_take samples of the
\* tail followed by the first n_new samples of the buffer, n_new =
\* min(len(buffer), N_STEP), n_take = min(len(tail), max(0, N_KEEP + N_LEN -
\* n_new)); it has n_new + n_take samples, N_KEEP + N_LEN of them whenever
\* len(tail) + n_new >= N_KEEP + N_LEN >= n_new.
C23_WindowAssembly ==
    [][ IsFeed(ev') /\ ev'.passes # << >> =>
          LET buffer == ev'.fed
              tail == Ctx(ev'.ws).pcmf32_old_
              n_new == Min(Len(buffer), N_STEP)
              n_take == Min(Len(tail), Max(0, N_KEEP + N_LEN - n_new))
              window == ev'.passes[1].window
          IN /\ window = SubSeq(tail, Len(tail) - n_take + 1, Len(tail))
                             \o SubSeq(buffer, 1, n_new)
             /\ Len(window) = n_new + n_take
             /\ ev'.passes[1].n_new = n_new
             /\ Len(tail) + n_new >= N_KEEP + N_LEN /\ N_KEEP + N_LEN >= n_new
                   => Len(window) = N_KEEP + N_LEN ]_vars

\* C23 witness: a drain submitted a window of N_KEEP + N_LEN samples, N_STEP
\* new ones behind an overlap, and left an older tail sample out of it (the
\* window of the pass before had N_STEP samples or more).
C23_Witness ==
    /\ IsFeed(ev)
    /\ ev.passes # << >>
    /\ ev.passes[1].n_new = N_STEP
    /\ Len(ev.passes[1].window) = N_KEEP + N_LEN
    /\ ev.passes[1].window[1].id > 1

\* C24: after every pass whose whisper_full call succeeds,
\* last_transcription_ is the transcript runInference formatted in that pass,
\* also when that transcript is empty.
C24_LastEmissionStored ==
    [][ Succeeded(ev') =>
          sockets'[ev'.ws].stream_ctx.last_transcription_ = ev'.passes[1].full ]_vars

\* ------------------------------------------------ the clean form on its own
\* The texts the engine may return for a segment: blanks, tabs, line ends,
\* letters and brackets.
CleanAlphabet == {" ", "\t", "\n", "\r", "a", "[", "]"}
CleanTexts == UNION { [1..n -> CleanAlphabet] : n \in 0..MaxClean }

\* No connection; the transcript runInference formatted from one segment
\* is about to be cleaned.
InitClean ==
    /\ now = 0
    /\ next_user_id = 1
    /\ sockets = << >>
    /\ closed = {}
    /\ n_fed = << >>
    /\ hist = << >>
    /\ threads = << >>
    /\ ctx_ = NoContext
    /\ \E text \in CleanTexts : ev = [NoEvent EXCEPT !.arg = Transcript(text)]

\* extractNewText lines 176 and 186: current_clean of the transcript.
Clean ==
    /\ ev.op = "none"
    /\ ev' = [ev EXCEPT !.op = "clean", !.text = CleanForm(ev.arg)]
    /\ UNCHANGED <<now, next_user_id, sockets, closed, n_fed, hist, threads, ctx_>>

NextClean == Clean

SpecClean == InitClean /\ [][NextClean]_vars

\* text without its bracketed spans: every stretch from a "[" to the next
\* "]" is left out, every other character is kept.
RECURSIVE StripSpans(_)
StripSpans(text) ==
    IF text = << >> THEN << >>
    ELSE IF Head(text) = "[" /\ \E j \in 2..Len(text) : text[j] = "]"
    THEN LET j == CHOOSE k \in 2..Len(text) :
                      text[k] = "]" /\ \A m \in 2..(k - 1) : text[m] # "]"
         IN StripSpans(SubSeq(text, j + 1, Len(text)))
    ELSE <<Head(text)>> \o StripSpans(Tail(text))

\* C26: the clean form of a transcript is the transcript without its
\* bracketed spans, all characters outside them kept in order, with the
\* whitespace (space, tab, CR, LF) at both ends removed.
C26_CleanForm ==
    [][ ev'.op = "clean" =>
          LET clean == ev'.text
              kept == StripSpans(ev'.arg)
          IN /\ clean # << >> => ~IsSpace(clean[1]) /\ ~IsSpace(clean[Len(clean)])
             /\ \E i \in 1..(Len(kept) + 1) :
                   /\ clean = SubSeq(kept, i, i + Len(clean) - 1)
                   /\ \A k \in 1..Len(kept) :
                         k < i \/ k > i + Len(clean) - 1 => IsSpace(kept[k]) ]_vars

\* ------------------------------------------------ the delta, continued
\* C27: for a non-empty transcript the delta is the trimmed rest of
\* clean(current) when clean(current) strictly extends clean(last), empty
\* when the two are equal, and the whole of clean(current) in every other
\* case, also when clean(current) is shorter than clean(last) or a proper
\* prefix of it.
C27_DeltaCases ==
    [][ ev'.op = "extract" /\ ev'.arg.full # << >> =>
          LET last == CleanForm(ev'.arg.last)
              current == CleanForm(ev'.arg.full)
          IN /\ StrictPrefix(last, current) =>
                   ev'.text = trim(SubSeq(current, Len(last) + 1, Len(current)))
             /\ current = last => ev'.text = << >>
             /\ ~StrictPrefix(last, current) /\ current # last =>
                   ev'.text = current ]_vars

\* C27 witness: clean(current) is a proper, non-empty prefix of clean(last)
\* and is returned whole.
C27_Witness ==
    /\ ev.op = "extract"
    /\ CleanForm(ev.arg.full) # << >>
    /\ StrictPrefix(CleanForm(ev.arg.full), CleanForm(ev.arg.last))
    /\ ev.text = CleanForm(ev.arg.full)

\* ------------------------------------------------ two sessions side by side
\* Two connections, ws1 opened before ws2, each fed frames of N_STEP float32
\* samples or of an odd length.  ws1 is sent flush, reset, config and
\* unparsable control frames, ws2 flush frames.
SocketsIso == {"ws1", "ws2"}
IsoFrames == {3, 4 * n_samples_step_}
IsoMessages ==
    { m \in TextMessages :
         ~m.parses \/ (m.type_is_string /\ m.type \in {"flush", "reset", "config"}) }
IsoFlush == { m \in IsoMessages : m.type = "flush" }

NextIso ==
    \/ TickTo(step_ms)
    \/ Open("ws1")
    \/ "ws1" \in DOMAIN sockets /\ Open("ws2")
    \/ OnTextOf("ws1", IsoMessages)
    \/ OnTextOf("ws2", IsoFlush)
    \/ \E ws \in SocketsIso : OnBinaryOf(ws, IsoFrames)

SpecIso == Init /\ [][NextIso]_vars

\* C29: the handler of a frame (binary, flush, reset, config or invalid) on
\* one connection leaves every other connection as it was, its session
\* (buffer, tail, prompt tokens, last transcription, last_process_time_,
\* n_iter_, parameters) and its user_id; a frame the handler sends that
\* carries a user_id carries that of the handler's connection and of no other.
C29_SessionIsolation ==
    [][ ev'.op \in {"binary", "text"} =>
          /\ \A w \in DOMAIN sockets \ {ev'.ws} :
                /\ w \in DOMAIN sockets'
                /\ sockets'[w] = sockets[w]
                /\ n_fed'[w] = n_fed[w]
          /\ \A i \in 1..Len(ev'.sent) :
                ev'.sent[i].type \in {"transcription", "flush_complete"} =>
                   /\ ev'.sent[i].user_id = sockets[ev'.ws].user_id
                   /\ \A w \in DOMAIN sockets \ {ev'.ws} :
                         ev'.sent[i].user_id # sockets[w].user_id ]_vars

\* C29 witness: a handler ran a pass on one connection and sent its text
\* while another connection held samples in its buffer, a tail and a stored
\* transcript, different from those of the first.
C29_Witness ==
    /\ ev.passes # << >>
    /\ ev.sent # << >>
    /\ ev.text # << >>
    /\ \E w \in DOMAIN sockets \ {ev.ws} :
          /\ Ctx(w).audio_buffer_ # << >>
          /\ Ctx(w).pcmf32_old_ # << >>
          /\ Ctx(w).last_transcription_ # << >>
          /\ Ctx(w).last_transcription_ # Ctx(ev.ws).last_transcription_

\* ------------------------------------------------ the session under threads
\* RealtimeStreamContext guards audio_buffer_, pcmf32_old_ and
\* last_process_time_ with buffer_mutex_.  Here two threads call one session,
\* and every call is taken apart at the places where the mutex is locked and
\* unlocked and where whisper_full is entered and left.
Threads == {"t1", "t2"}
LockWs == "ws1"

\* A thread outside every call.  Inside a call: pc is the place it is at, op
\* the call; from the window assembly on, window is audio_to_process, n_new
\* n_samples_new, at the time of the assembly and prev the
\* last_process_time_ the assembly found; full is full_transcription.
Idle ==
    [pc |-> "idle", op |-> "", window |-> << >>, n_new |-> 0, at |-> 0, prev |-> 0,
     full |-> << >>]

\* A connection opened at time 0 and both threads outside every call.
InitLock ==
    /\ now = 0
    /\ next_user_id = 2
    /\ closed = {}
    /\ sockets = [ws \in {LockWs} |->
                     [user_id |-> 1,
                      stream_ctx |-> RealtimeStreamContext(OpenParams, 0)]]
    /\ n_fed = [ws \in {LockWs} |-> 0]
    /\ hist = [ws \in {LockWs} |-> NoHistory]
    /\ ev = NoEvent
    /\ threads = [t \in Threads |-> Idle]
    /\ ctx_ = NoContext

\* Another thread is at one of the places pcs.
Racing(t, pcs) == \E u \in Threads \ {t} : threads[u].pc \in pcs

\* std::lock_guard<std::mutex> lock(buffer_mutex_): thread t, at place from,
\* gets the mutex once it is free and goes on to place to of call op.
Acquire(t, from, to, op) ==
    /\ threads[t].pc = from
    /\ Ctx(LockWs).buffer_mutex_ = NoThread
    /\ sockets' = [sockets EXCEPT ![LockWs].stream_ctx.buffer_mutex_ = t]
    /\ threads' = [threads EXCEPT ![t].pc = to, ![t].op = op]
    /\ UNCHANGED <<now, next_user_id, closed, n_fed, hist, ev, ctx_>>

\* addPCMAudio line 21, called with n_samples_step_ float samples.
CallAddPCMAudio(t) ==
    /\ n_fed[LockWs] + n_samples_step_ <= MaxFed
    /\ Acquire(t, "idle", "push", "push")

\* addPCMAudio lines 22-28: insert and cap, then the lock_guard unlocks.
AddPCMAudioBody(t) ==
    /\ threads[t].pc = "push"
    /\ LET samples == Samples(n_fed[LockWs], 4 * n_samples_step_)
           s == addPCMAudio(Ctx(LockWs), samples)
       IN /\ sockets' = [sockets EXCEPT ![LockWs].stream_ctx =
                             [s EXCEPT !.buffer_mutex_ = NoThread]]
          /\ n_fed' = [n_fed EXCEPT ![LockWs] = @ + Len(samples)]
    /\ threads' = [threads EXCEPT ![t] = Idle]
    /\ UNCHANGED <<now, next_user_id, closed, hist, ev, ctx_>>

\* processIfReady line 52 -> shouldProcess line 39.
CallShouldProcess(t) == Acquire(t, "idle", "should", "drain")

\* shouldProcess lines 41-49, then processIfReady lines 52-54: the lock_guard
\* unlocks on return; not ready, processIfReady returns "".
ShouldProcessBody(t) ==
    /\ threads[t].pc = "should"
    /\ sockets' = [sockets EXCEPT ![LockWs].stream_ctx.buffer_mutex_ = NoThread]
    /\ threads' = [threads EXCEPT ![t] =
                      IF shouldProcess(Ctx(LockWs), now)
                      THEN [@ EXCEPT !.pc = "ready"]
                      ELSE Idle]
    /\ UNCHANGED <<now, next_user_id, closed, n_fed, hist, ev, ctx_>>

\* processIfReady line 59.
LockAssemble(t) == Acquire(t, "ready", "assemble", "drain")

\* Mutant of AssembleBody: the mutex is not unlocked at the end of the
\* block, it stays locked while whisper_full runs.
AssembleBody_HoldLock(t) ==
    /\ threads[t].pc = "assemble"
    /\ LET a == AssembleStep(Ctx(LockWs), now)
       IN /\ sockets' = [sockets EXCEPT ![LockWs].stream_ctx = a.ctx]
          /\ threads' = [threads EXCEPT ![t] =
                            [@ EXCEPT !.pc = "engine", !.window = a.window,
                                      !.n_new = a.n_new, !.at = now,
                                      !.prev = Ctx(LockWs).last_process_time_]]
    /\ UNCHANGED <<now, next_user_id, closed, n_fed, hist, ev, ctx_>>

\* processIfReady lines 61-82: the window is assembled and the lock_guard
\* unlocks at the end of the block; line 84 enters runInference.
AssembleBody(t) ==
    /\ threads[t].pc = "assemble"
    /\ LET a == AssembleStep(Ctx(LockWs), now)
       IN /\ sockets' = [sockets EXCEPT ![LockWs].stream_ctx =
                             [a.ctx EXCEPT !.buffer_mutex_ = NoThread]]
          /\ threads' = [threads EXCEPT ![t] =
                            [@ EXCEPT !.pc = "engine", !.window = a.window,
                                      !.n_new = a.n_new, !.at = now,
                                      !.prev = Ctx(LockWs).last_process_time_]]
    /\ UNCHANGED <<now, next_user_id, closed, n_fed, hist, ev, ctx_>>

\* flush line 210.
CallFlush(t) == Acquire(t, "idle", "flush", "flush")

\* flush lines 212-235: empty buffer, return ""; else the window is
\* assembled; either way the lock_guard unlocks.  Line 237 enters
\* runInference.
FlushBody(t) ==
    /\ threads[t].pc = "flush"
    /\ IF Ctx(LockWs).audio_buffer_ = << >>
       THEN /\ sockets' = [sockets EXCEPT ![LockWs].stream_ctx.buffer_mutex_ = NoThread]
            /\ threads' = [threads EXCEPT ![t] = Idle]
       ELSE LET a == AssembleFlush(Ctx(LockWs), now)
            IN /\ sockets' = [sockets EXCEPT ![LockWs].stream_ctx =
                                  [a.ctx EXCEPT !.buffer_mutex_ = NoThread]]
               /\ threads' = [threads EXCEPT ![t] =
                                 [@ EXCEPT !.pc = "engine", !.window = a.window,
                                           !.n_new = a.n_new, !.at = now,
                                           !.prev = Ctx(LockWs).last_process_time_]]
    /\ UNCHANGED <<now, next_user_id, closed, n_fed, hist, ev, ctx_>>

\* reset line 242.
CallReset(t) == Acquire(t, "idle", "reset", "reset")

\* reset lines 243-249.  It writes prompt_tokens_, last_transcription_ and
\* n_iter_ under the mutex while a thread in runInference or extractNewText
\* writes them without it: such a write of reset takes effect or is lost.
ResetBody(t) ==
    /\ threads[t].pc = "reset"
    /\ LET s == Ctx(LockWs)
           r == [reset(s, now) EXCEPT !.buffer_mutex_ = NoThread]
       IN \E lost \in (IF Racing(t, {"engine", "extract"}) THEN BOOLEAN ELSE {FALSE}) :
             sockets' = [sockets EXCEPT ![LockWs].stream_ctx =
                            IF lost
                            THEN [r EXCEPT !.prompt_tokens_ = s.prompt_tokens_,
                                           !.last_transcription_ = s.last_transcription_,
                                           !.n_iter_ = s.n_iter_]
                            ELSE r]
    /\ threads' = [threads EXCEPT ![t] = Idle]
    /\ UNCHANGED <<now, next_user_id, closed, n_fed, hist, ev, ctx_>>

\* runInference lines 89-151: whisper_full returns with one of the engine's
\* answers, n_iter_ and prompt_tokens_ are written without the mutex.  With
\* another thread in runInference or in reset the increment of n_iter_ takes
\* effect or is lost.
EngineReturn(t) ==
    /\ threads[t].pc = "engine"
    /\ \E eng \in EngineCalls(threads[t].window # << >>) :
       \E lost \in (IF Racing(t, {"engine", "reset"}) THEN BOOLEAN ELSE {FALSE}) :
          LET s == Ctx(LockWs)
              r == runInference(s, threads[t].window, eng)
          IN /\ sockets' = [sockets EXCEPT ![LockWs].stream_ctx =
                                IF lost THEN s ELSE r.ctx]
             /\ threads' = [threads EXCEPT ![t] =
                               [@ EXCEPT !.pc = "extract", !.full = r.result]]
    /\ UNCHANGED <<now, next_user_id, closed, n_fed, hist, ev, ctx_>>

\* extractNewText lines 153-204: last_transcription_ is written without the
\* mutex; with another thread in extractNewText or in reset the write takes
\* effect or is lost.  The call returns.
ExtractBody(t) ==
    /\ threads[t].pc = "extract"
    /\ \E lost \in (IF Racing(t, {"extract", "reset"}) THEN BOOLEAN ELSE {FALSE}) :
          LET s == Ctx(LockWs)
              x == extractNewText(s, threads[t].full)
          IN sockets' = [sockets EXCEPT ![LockWs].stream_ctx =
                            IF lost THEN s ELSE x.ctx]
    /\ threads' = [threads EXCEPT ![t] = Idle]
    /\ UNCHANGED <<now, next_user_id, closed, n_fed, hist, ev, ctx_>>

\* The steady clock under threads.
TickLock ==
    /\ now < MaxTime
    /\ now' = now + 1
    /\ UNCHANGED <<next_user_id, sockets, closed, n_fed, hist, ev, threads, ctx_>>

NextLock ==
    \/ TickLock
    \/ \E t \in Threads : CallAddPCMAudio(t)
    \/ \E t \in Threads : AddPCMAudioBody(t)
    \/ \E t \in Threads : CallShouldProcess(t)
    \/ \E t \in Threads : ShouldProcessBody(t)
    \/ \E t \in Threads : LockAssemble(t)
    \/ \E t \in Threads : AssembleBody(t)
    \/ \E t \in Threads : CallFlush(t)
    \/ \E t \in Threads : FlushBody(t)
    \/ \E t \in Threads : CallReset(t)
    \/ \E t \in Threads : ResetBody(t)
    \/ \E t \in Threads : EngineReturn(t)
    \/ \E t \in Threads : ExtractBody(t)

SpecLock == InitLock /\ [][NextLock]_vars

\* The places of a call at which the caller has buffer_mutex_ locked.
Locked == {"push", "should", "assemble", "flush", "reset"}

\* C28: a thread has the mutex during the readiness check and during the
\* window assembly of processIfReady and flush, and has it no more when it
\* enters whisper_full, nor while the call runs, nor while prompt_tokens_ and
\* last_transcription_ are written behind it; whoever has the mutex while a
\* thread is in whisper_full is in one of the short locked blocks, so
\* addPCMAudio waits for no inference.
C28_LockDiscipline ==
    \A t \in DOMAIN threads :
       /\ threads[t].pc \in {"should", "assemble", "flush"} =>
             Ctx(LockWs).buffer_mutex_ = t
       /\ threads[t].pc \in {"ready", "engine", "extract"} =>
             /\ Ctx(LockWs).buffer_mutex_ # t
             /\ \A u \in DOMAIN threads :
                   Ctx(LockWs).buffer_mutex_ = u => threads[u].pc \in Locked

\* C28 witness: one thread is in whisper_full for a drain while the other
\* has the mutex and is appending samples.
C28_Witness ==
    \E t, u \in DOMAIN threads :
       /\ threads[t].pc = "engine"
       /\ threads[t].op = "drain"
       /\ threads[u].pc = "push"
       /\ Ctx(LockWs).buffer_mutex_ = u

\* C30: whatever other threads do between the readiness check and the
\* window assembly of processIfReady, the window it submits holds exactly
\* N_STEP new samples, and step_ms or more lie between the pass and the
\* pass before it (the last_process_time_ the assembly finds).
C30_DrainAtomic ==
    \A t \in DOMAIN threads :
       threads[t].pc = "engine" /\ threads[t].op = "drain" =>
          /\ threads[t].n_new = N_STEP
          /\ threads[t].at - threads[t].prev >= step_ms

\* ------------------------------------------------------ the feed, accounted
\* The ids of a sequence of samples.
SampleIds(seq) == [i \in 1..Len(seq) |-> seq[i].id]

\* The ids n + 1, ..., m in order.
IdRun(n, m) == [i \in 1..(m - n) |-> n + i]

\* The new samples of the passes of a handler, in the order of the passes.
SubmittedNew(passes) == Concat([i \in 1..Len(passes) |-> NewSamples(passes[i])])

\* C31: between two resets of a session every fed sample goes one way only.
\* When a handler starts the buffer holds the latest fed samples in feed
\* order, all fed after every sample submitted as new so far.  A binary or
\* flush handler
\* takes the buffer followed by the samples of its frame, drops from the
\* front what the cap of addPCMAudio pops, submits the next samples as the
\* new part of its window and leaves the rest in the buffer: no sample is
\* submitted twice or out of order, and none is lost but to the cap.  Every
\* other handler that is no reset leaves the buffer as it is.
C31_SampleConservation ==
    [][ ev'.op \in {"binary", "text"} /\ ~IsControl(ev', "reset") =>
           LET w == ev'.ws
               buf == SampleIds(Ctx(w).audio_buffer_)
               popped == IF ev'.op = "binary" THEN ev'.arg.popped ELSE 0
               before == buf \o IdRun(n_fed[w], n_fed'[w])
               new == SampleIds(SubmittedNew(ev'.passes))
               after == SampleIds(sockets'[w].stream_ctx.audio_buffer_)
           IN /\ buf = IdRun(n_fed[w] - Len(buf), n_fed[w])
              /\ hist[w].last_new <= n_fed[w] - Len(buf)
              /\ popped <= Len(before)
              /\ SubstrFrom(before, popped) = new \o after
              /\ hist'[w].last_new =
                    IF new = << >> THEN hist[w].last_new ELSE new[Len(new)] ]_vars

\* C31 witness: the frame that made addPCMAudio pop the oldest sample also
\* ran a pass, which submitted samples behind the popped one and left others
\* in the buffer.
C31_Witness ==
    /\ ev.op = "binary"
    /\ ev.arg.popped > 0
    /\ ev.passes # << >>
    /\ ev.passes[1].n_new > 0
    /\ NewSamples(ev.passes[1])[1].id > 1
    /\ Ctx(ev.ws).audio_buffer_ # << >>

\* C32: with N_STEP <= N_KEEP + N_LEN the tail of every session holds at most
\* N_KEEP + N_LEN samples, the window of a pass of processIfReady has at most
\* N_KEEP + N_LEN samples, and the window of a pass of flush at most
\* max(N_MAX, N_KEEP + N_LEN).
C32_WindowBounded ==
    N_STEP <= N_KEEP + N_LEN =>
       /\ \A w \in DOMAIN sockets : Len(Ctx(w).pcmf32_old_) <= N_KEEP + N_LEN
       /\ \A i \in 1..Len(ev.passes) :
             /\ ev.op = "binary" => Len(ev.passes[i].window) <= N_KEEP + N_LEN
             /\ ev.op = "text" =>
                   Len(ev.passes[i].window) <= Max(N_MAX, N_KEEP + N_LEN)

\* C32 witness: a flush submitted a window of N_MAX samples, the whole of a
\* full buffer and more than N_KEEP + N_LEN.
C32_Witness ==
    /\ N_STEP <= N_KEEP + N_LEN
    /\ IsControl(ev, "flush")
    /\ ev.passes # << >>
    /\ Len(ev.passes[1].window) = N_MAX
    /\ N_MAX > N_KEEP + N_LEN

\* C33: the constructor, every flush that submits audio and every reset set
\* last_process_time_ to the time of the call; no handler sets it to anything
\* but the time of the call, and a binary frame runs a pass only when step_ms
\* or more have passed since the time it holds.  So no pass of processIfReady
\* runs less than step_ms after the connection opened, after a flush that
\* submitted audio or after a reset, whatever the buffer holds.
C33_GateRestamped ==
    [][ ev'.op \in {"open", "binary", "text"} =>
           LET w == ev'.ws
               stamp == sockets'[w].stream_ctx.last_process_time_
           IN /\ ev'.op = "open" => stamp = now
              /\ IsControl(ev', "flush") /\ ev'.passes # << >> => stamp = now
              /\ IsControl(ev', "reset") => stamp = now
              /\ ev'.op # "open" =>
                    /\ Ctx(w).last_process_time_ <= now
                    /\ stamp \in {Ctx(w).last_process_time_, now}
                    /\ ev'.op = "binary" /\ ev'.passes # << >> =>
                          now - Ctx(w).last_process_time_ >= step_ms ]_vars

\* C33 witness: a binary frame left N_STEP samples or more in the buffer and
\* ran no pass, less than step_ms after a flush that submitted audio; no pass
\* of processIfReady ran in that time.
C33_Witness ==
    /\ IsFeed(ev)
    /\ ev.passes = << >>
    /\ Len(ev.fed) >= N_STEP
    /\ now - Ctx(ev.ws).last_process_time_ < step_ms
    /\ Ctx(ev.ws).last_process_time_ > 0
    /\ hist[ev.ws].drain_at = NoMark
    /\ Ctx(ev.ws).n_iter_ > 0

\* C34: a pass runs only in the handler of a binary frame that was fed or of
\* a flush frame, and a handler sends at most one frame.  A step that is
\* neither a binary frame nor a flush nor a reset on a connection (the clock
\* advancing, any other frame, anything on another connection) leaves its
\* session as it is, so N_STEP samples or more in its buffer stay there,
\* however long ago the last pass was.
C34_NoTimer ==
    [][ /\ ev'.passes # << >> => IsFeed(ev') \/ IsControl(ev', "flush")
        /\ Len(ev'.sent) <= 1
        /\ \A w \in DOMAIN sockets \cap DOMAIN sockets' :
              ~(ev'.ws = w /\ (ev'.op = "binary" \/ IsControl(ev', "flush")
                                \/ IsControl(ev', "reset"))) =>
                 sockets'[w] = sockets[w] ]_vars

\* C34 witness: a config frame found a session that was ready, N_STEP samples
\* or more in the buffer and step_ms or more since the last stamp, and left
\* it so, no pass run.
C34_Witness ==
    /\ IsControl(ev, "config")
    /\ ev.passes = << >>
    /\ Len(ev.sent) = 1
    /\ shouldProcess(Ctx(ev.ws), now)

\* ------------------------------------------------- one engine, one event loop
\* Every session calls whisper_full on the one whisper_context that main
\* made, and reads the segments from it afterwards, with no lock around the
\* two.  Here a handler that runs a pass is taken apart at the call and at the
\* return of whisper_full; there are two connections, ws1 opened before ws2,
\* fed frames of N_STEP float32 samples and sent flush frames, and handlers
\* run on the thread that called uWS::App::run(), one after the other.
Loop == "loop"
LoopSockets == {"ws1", "ws2"}
LoopFrames == {4 * n_samples_step_}

\* A handler stopped in runInference: pc is "engine" while whisper_full runs
\* and "read" once it has returned; made is what this call of whisper_full
\* produced.
InCall(ws, op, a) ==
    [pc |-> "engine", ws |-> ws, op |-> op, window |-> a.window, n_new |-> a.n_new,
     made |-> NoContext.result]

\* The event loop is between two handlers.
LoopIdle == threads = << >>

\* Mutant of LoopBinary: the handler of a binary frame runs on a thread of its
\* connection, whatever the other connection's handler is doing.
LoopBinary_OwnThread(ws) ==
    /\ ws \in DOMAIN sockets
    /\ ws \notin DOMAIN threads
    /\ \E nbytes \in LoopFrames :
       LET samples == Samples(n_fed[ws], nbytes)
           fed == addPCMAudio(Ctx(ws), samples)
       IN /\ n_fed[ws] + Len(samples) <= MaxFed
          /\ n_fed' = [n_fed EXCEPT ![ws] = @ + Len(samples)]
          /\ IF shouldProcess(fed, now)
             THEN LET a == AssembleStep(fed, now)
                  IN /\ sockets' = [sockets EXCEPT ![ws].stream_ctx = a.ctx]
                     /\ threads' = [t \in DOMAIN threads \cup {ws} |->
                                        IF t = ws THEN InCall(ws, "binary", a)
                                        ELSE threads[t]]
                     /\ ctx_' = [ctx_ EXCEPT !.calls = @ + 1]
                     /\ ev' = NoEvent
             ELSE /\ sockets' = [sockets EXCEPT ![ws].stream_ctx = fed]
                  /\ ev' = [NoEvent EXCEPT !.op = "binary", !.ws = ws,
                                           !.fed = fed.audio_buffer_]
                  /\ UNCHANGED <<threads, ctx_>>
    /\ UNCHANGED <<now, next_user_id, closed, hist>>

\* .message with a binary frame of float32 samples, up to the call of
\* whisper_full, or to its end when processIfReady runs no pass.
LoopBinary(ws) ==
    /\ LoopIdle
    /\ ws \in DOMAIN sockets
    /\ \E nbytes \in LoopFrames :
       LET samples == Samples(n_fed[ws], nbytes)
           fed == addPCMAudio(Ctx(ws), samples)
       IN /\ n_fed[ws] + Len(samples) <= MaxFed
          /\ n_fed' = [n_fed EXCEPT ![ws] = @ + Len(samples)]
          /\ IF shouldProcess(fed, now)
             THEN LET a == AssembleStep(fed, now)
                  IN /\ sockets' = [sockets EXCEPT ![ws].stream_ctx = a.ctx]
                     /\ threads' = [t \in {Loop} |-> InCall(ws, "binary", a)]
                     /\ ctx_' = [ctx_ EXCEPT !.calls = @ + 1]
                     /\ ev' = NoEvent
             ELSE /\ sockets' = [sockets EXCEPT ![ws].stream_ctx = fed]
                  /\ ev' = [NoEvent EXCEPT !.op = "binary", !.ws = ws,
                                           !.fed = fed.audio_buffer_]
                  /\ UNCHANGED <<threads, ctx_>>
    /\ UNCHANGED <<now, next_user_id, closed, hist>>

\* .message with a flush frame, up to the call of whisper_full, or to its end
\* when the buffer is empty.
LoopFlush(ws) ==
    /\ LoopIdle
    /\ ws \in DOMAIN sockets
    /\ IF Ctx(ws).audio_buffer_ # << >>
       THEN LET a == AssembleFlush(Ctx(ws), now)
            IN /\ sockets' = [sockets EXCEPT ![ws].stream_ctx = a.ctx]
               /\ threads' = [t \in {Loop} |-> InCall(ws, "flush", a)]
               /\ ctx_' = [ctx_ EXCEPT !.calls = @ + 1]
               /\ ev' = NoEvent
       ELSE /\ ev' = [NoEvent EXCEPT !.op = "text", !.ws = ws,
                                     !.sent = <<FlushCompleteFrame(<< >>,
                                                                   sockets[ws].user_id)>>]
            /\ UNCHANGED <<sockets, threads, ctx_>>
    /\ UNCHANGED <<now, next_user_id, closed, n_fed, hist>>

\* whisper_full returns: it has left its return code and its segments in the
\* shared context.
LoopEngine(t) ==
    /\ t \in DOMAIN threads
    /\ threads[t].pc = "engine"
    /\ \E eng \in EngineResults :
          /\ ctx_' = [result |-> eng, calls |-> ctx_.calls - 1]
          /\ threads' = [threads EXCEPT ![t].pc = "read", ![t].made = eng]
    /\ ev' = NoEvent
    /\ UNCHANGED <<now, next_user_id, sockets, closed, n_fed, hist>>

\* The rest of the handler: runInference reads the segments and the tokens
\* from the shared context, extractNewText cuts the delta, the frame is sent.
LoopReturn(t) ==
    /\ t \in DOMAIN threads
    /\ threads[t].pc = "read"
    /\ LET th == threads[t]
           ws == th.ws
           eng == ctx_.result
           r == runInference(Ctx(ws), th.window, eng)
           x == extractNewText(r.ctx, r.result)
       IN /\ sockets' = [sockets EXCEPT ![ws].stream_ctx = x.ctx]
          /\ ev' = [NoEvent EXCEPT
                       !.op = IF th.op = "binary" THEN "binary" ELSE "text",
                       !.ws = ws,
                       !.passes = << [window |-> th.window, n_new |-> th.n_new,
                                      called |-> r.called, rc |-> eng.rc,
                                      full |-> r.result,
                                      n_segments |-> Len(eng.segments),
                                      tokens |-> Concat([i \in 1..Len(eng.segments) |->
                                                            eng.segments[i].tokens])] >>,
                       !.text = x.text,
                       !.sent = IF th.op = "flush"
                                THEN <<FlushCompleteFrame(x.text, sockets[ws].user_id)>>
                                ELSE IF x.text # << >>
                                THEN <<TranscriptionFrame(x.text, sockets[ws].user_id)>>
                                ELSE << >>]
    /\ threads' = [u \in DOMAIN threads \ {t} |-> threads[u]]
    /\ UNCHANGED <<now, next_user_id, closed, n_fed, hist, ctx_>>

NextLoop ==
    \/ TickTo(step_ms)
    \/ LoopIdle /\ Open("ws1")
    \/ LoopIdle /\ "ws1" \in DOMAIN sockets /\ Open("ws2")
    \/ \E ws \in LoopSockets : LoopBinary(ws)
    \/ \E ws \in LoopSockets : LoopFlush(ws)
    \/ \E t \in DOMAIN threads : LoopEngine(t)
    \/ \E t \in DOMAIN threads : LoopReturn(t)

SpecLoop == Init /\ [][NextLoop]_vars

\* C35: at most one whisper_full call is in progress at any time, over all
\* sessions, and when a session reads the segments and the tokens behind its
\* whisper_full call, the shared context holds what that call produced.
C35_OneEngineCall ==
    /\ ctx_.calls <= 1
    /\ Cardinality(DOMAIN threads) <= 1
    /\ \A t \in DOMAIN threads :
          threads[t].pc = "read" => ctx_.result = threads[t].made

\* C35 witness: a session is about to read a segment its whisper_full call
\* produced, while the other session holds the transcript of an earlier call
\* of its own, another text, and samples in its buffer.
C35_Witness ==
    \E t \in DOMAIN threads :
       /\ threads[t].pc = "read"
       /\ ctx_.result.segments # << >>
       /\ \E w \in DOMAIN sockets \ {threads[t].ws} :
             /\ Ctx(w).last_transcription_ # << >>
             /\ Ctx(w).last_transcription_ #
                   FormatSegment(Ctx(w).params_, ctx_.result.segments[1])
             /\ Ctx(w).audio_buffer_ # << >>

====
